---- MODULE Spec2Model ----
(***************************************************************************)
(* Stash backend: the insight engine (AgenticInsightService), the          *)
(* behavioural adaptation service (UserBehaviorService), the insight       *)
(* routes and the real-time notification service (NotificationService).    *)
(*                                                                         *)
(* Time is counted in whole days.  A Date is a day number; Date.now() is   *)
(* Now; getDay() is the day number modulo 7; the current month starts at   *)
(* day 1.  Amounts are whole rupees.  A generated text is modelled by the  *)
(* tuple of the values the template interpolates into it, so two contents  *)
(* are equal exactly when the two strings are.                             *)
(***************************************************************************)
EXTENDS Integers, Sequences, FiniteSets, TLC

VARIABLES
    aiInsights,     \* the AIInsight collection, in insertion order
    nextId,         \* the next fresh uuid
    clock,          \* the timestamp the next insertMany stamps as createdAt
    budgets,        \* the Budget collection: userId -> <<[category, budgetCap]>>
    userProfiles,   \* UserBehaviorService.userProfiles: userId -> profile or NoProfile
    responseCount,  \* UserBehaviorService.userResponses: per user the number of entries
                    \* and the number of them whose response is 'acted_on'
    salaries,       \* the Salary collection: userId -> its records, in insertion order
    input,          \* the arguments of the call under study, and the await an
                    \* asynchronous call stands at
    ret,            \* the last operation and what it returned
    io,             \* NotificationService.io is set
    userSockets,    \* NotificationService.userSockets: the Map entries [userId, socketId], in key order
    socketState,    \* socket id -> "new" (not yet connected), "open" or "closed"
    lastAuth,       \* history: userId -> the socket that last sent 'authenticate' for it
    llm,            \* the GPT-4 integration: config.openaiApiKey is set, the number of
                    \* calls made to the external API and the outcome of the last one
    users,          \* the User collection: username -> the document or NoUser
    transactions,   \* the Transaction collection, in insertion order
    nudges,         \* the Nudge collection, in insertion order
    outbox,         \* history: the notifications sendNotification was called with, by
                    \* number: those logged as queued and those emitted, per user
    db              \* the startup connectDB call: where it stands, its loop variable,
                    \* NODE_ENV, and what it has done so far

vars == <<aiInsights, nextId, clock, budgets, salaries, userProfiles, responseCount,
          input, ret, io, userSockets, socketState, lastAuth, llm, db,
          users, transactions, nudges, outbox>>

insightVars == <<aiInsights, nextId, clock>>
behaviorVars == <<userProfiles, responseCount>>
socketVars == <<io, userSockets, socketState, lastAuth>>
collectionVars == <<users, transactions, nudges>>
platformVars == <<llm, db, collectionVars, outbox>>

----------------------------------------------------------------------------
(* Bounds and input domains                                                *)

MaxTx == 3            \* longest transaction list handed to generateInsightsForUser
MaxBatches == 2       \* insertMany calls in the store specification
MaxLimit == 7         \* largest `limit` of getActiveInsightsForUser
MaxResponses == 5     \* responses recorded in the behaviour specification
MaxInactive == 1      \* insights deactivated in the store specification
Now == 20             \* Date.now(), as a day number (day of the month as well)
DaysInMonth == 30     \* days of the current month

Users == {"u1", "u2"}
Sockets == {"s1", "s2"}
NoProfile == [patterns |-> <<>>, sensitivityLevel |-> "none"]
NoSocket == "none"
NoResponses == [total |-> 0, actedOn |-> 0]
NoSalary == 0          \* user.salary when the document has none

Personas == {"Heavy Spender", "Medium Spender", "Max Saver"}
\* UserProfile.spendingPersonality is a plain string: one value outside the enum
AnyPersona == Personas \cup {"Freelancer"}

Salaries == {100000, 200000}

----------------------------------------------------------------------------
(* Generic helpers                                                         *)

Max(a, b) == IF a >= b THEN a ELSE b
Min(a, b) == IF a <= b THEN a ELSE b

\* round(n / d) for d > 0, halves away from zero upwards (Math.round, toFixed)
RoundDiv(n, d) == IF n >= 0 THEN (2 * n + d) \div (2 * d)
                  ELSE -((2 * (-n) + d - 1) \div (2 * d))

\* round(n * k / d) for n >= 0, computed without leaving 32 bits
RoundMulDiv(n, k, d) == k * (n \div d) + RoundDiv((n % d) * k, d)

RECURSIVE SumSeq(_)
SumSeq(s) == IF s = <<>> THEN 0 ELSE Head(s) + SumSeq(Tail(s))

Amounts(txs) == [i \in 1..Len(txs) |-> txs[i].amount]

\* Array.prototype.slice(start, end) on a 1-based sequence, negative indices
\* counted from the end as JavaScript does
SliceIdx(n, k) == IF k < 0 THEN Max(n + k, 0) ELSE Min(k, n)
Slice(s, start, end) ==
    LET a == SliceIdx(Len(s), start)
        b == SliceIdx(Len(s), end)
    IN  IF b <= a THEN <<>> ELSE SubSeq(s, a + 1, b)

\* the keys of an object built by acc[k] = ..., in insertion order: each key
\* where it first occurs
KeysInOrder(ks) ==
    LET first == SelectSeq([i \in 1..Len(ks) |-> i],
                    LAMBDA i : \A j \in 1..(i - 1) : ks[j] # ks[i])
    IN  [k \in 1..Len(first) |-> ks[first[k]]]

\* a stable sort of s, given as the sequence of the indices of s: i comes
\* before j when Before(i, j), and otherwise in the order given by keepOrder
\* (TRUE: as in s, FALSE: reversed)
SortIndices(n, Before(_, _), keepOrder) ==
    LET Precedes(i, j) == \/ Before(i, j)
                          \/ /\ ~Before(j, i)
                             /\ IF keepOrder THEN i < j ELSE i > j
        Rank(i) == Cardinality({j \in 1..n : Precedes(j, i)})
    IN  [k \in 1..n |-> CHOOSE i \in 1..n : Rank(i) = k - 1]

----------------------------------------------------------------------------
(* Transactions                                                            *)

\* String.prototype.toLowerCase on the category and merchant strings in use
ToLowerCase(str) ==
    CASE str = "Food & Dining" -> "food & dining"
      [] str = "Groceries" -> "groceries"
      [] str = "Entertainment" -> "entertainment"
      [] str = "Shopping" -> "shopping"
      [] str = "Transport" -> "transport"
      [] str = "Savings" -> "savings"
      [] str = "Travel" -> "travel"
      [] str = "Utilities" -> "utilities"
      [] str = "Dining" -> "dining"
      [] str = "Healthcare" -> "healthcare"
      [] str = "Education" -> "education"
      [] str = "Savings Bank" -> "savings bank"
      [] str = "Cafe" -> "cafe"
      [] str = "Mart" -> "mart"
      [] str = "Diner" -> "diner"
      [] OTHER -> str

\* String.prototype.includes('savings') on the lower-cased strings in use
IncludesSavings(str) == str \in {"savings", "savings bank"}

\* the transactions a list is drawn from: TransactionData (id, amount,
\* category, merchant, date)
TxPool == {
    [id |-> "t1", amount |-> 11000, category |-> "food",
     merchant |-> "Cafe", date |-> Now - 1],
    [id |-> "t2", amount |-> 13000, category |-> "Groceries",
     merchant |-> "Mart", date |-> Now - 2],
    [id |-> "t3", amount |-> 4000, category |-> "Food & Dining",
     merchant |-> "Diner", date |-> Now - 8],
    [id |-> "t4", amount |-> 500, category |-> "savings",
     merchant |-> "Savings Bank", date |-> Now - 5] }

TxLists == UNION {[1..n -> TxPool] : n \in 0..MaxTx}

\* transactions.filter(t => new Date(t.date) >= new Date(Date.now() - k days))
Recent(txs, k) == SelectSeq(txs, LAMBDA t : t.date >= Now - k)

TotalAmount(txs) == SumSeq(Amounts(txs))

\* the keys of categoryCounts, in insertion order, and their counts
CategoryKeys(txs) == KeysInOrder([i \in 1..Len(txs) |-> txs[i].category])
CategoryCount(txs, c) == Cardinality({i \in 1..Len(txs) : txs[i].category = c})
CategoryTotal(txs, c) ==
    TotalAmount(SelectSeq(txs, LAMBDA t : t.category = c))

\* Array.prototype.find over Object.entries(categoryCounts): the first key
\* whose count is at least n, or "" when there is none
FirstCategoryWithCount(txs, n) ==
    LET ks == CategoryKeys(txs)
        hits == {i \in 1..Len(ks) : CategoryCount(txs, ks[i]) >= n}
    IN  IF hits = {} THEN ""
        ELSE ks[CHOOSE i \in hits : \A j \in hits : i <= j]

----------------------------------------------------------------------------
(* Budgets                                                                 *)

\* utils/budgetData.ts: the persona's default caps, in declaration order
budgetData(persona) ==
    CASE persona = "Heavy Spender" ->
           << [category |-> "Entertainment", budgetCap |-> 12000],
              [category |-> "Food & Dining", budgetCap |-> 10000],
              [category |-> "Groceries", budgetCap |-> 12000],
              [category |-> "Shopping", budgetCap |-> 15000],
              [category |-> "Transport", budgetCap |-> 4000] >>
      [] persona = "Medium Spender" ->
           << [category |-> "Food & Dining", budgetCap |-> 6000],
              [category |-> "Groceries", budgetCap |-> 7000],
              [category |-> "Savings", budgetCap |-> 20000],
              [category |-> "Shopping", budgetCap |-> 12000],
              [category |-> "Transport", budgetCap |-> 5000] >>
      [] persona = "Max Saver" ->
           << [category |-> "Transport", budgetCap |-> 5000],
              [category |-> "Groceries", budgetCap |-> 6000],
              [category |-> "Travel", budgetCap |-> 4000],
              [category |-> "Utilities", budgetCap |-> 7000],
              [category |-> "Savings", budgetCap |-> 25000] >>
      [] OTHER -> <<>>

\* getBudgetForPersona(persona) is null
NoBudgetForPersona(persona) == persona \notin Personas

\* budgetCaps[category] = {budgetCap}: an existing key keeps its place and
\* takes the new cap, a new key goes last
SetCap(caps, entry) ==
    IF \E i \in 1..Len(caps) : caps[i].category = entry.category
    THEN [i \in 1..Len(caps) |->
            IF caps[i].category = entry.category THEN entry ELSE caps[i]]
    ELSE Append(caps, entry)

\* the defaults overridden by the user's Budget documents, one per category
\* (the collection's unique index on userId and category)
MergeCaps(caps, custom) ==
    IF custom = <<>> THEN caps
    ELSE IF Len(custom) = 1 THEN SetCap(caps, custom[1])
    ELSE SetCap(SetCap(caps, custom[1]), custom[2])

\* AgenticInsightService.getBudgetDataForUser; <<>> stands for undefined when
\* the persona has no budget
getBudgetDataForUser(persona, userId) ==
    MergeCaps(budgetData(persona), budgets[userId])

\* AgenticInsightService.normalizeCategory
categoryMappings(persona, lower) ==
    CASE persona = "Heavy Spender" ->
           (CASE lower = "entertainment" -> "Entertainment"
              [] lower = "food & dining" -> "Dining"
              [] lower = "food" -> "Dining"
              [] lower = "dining" -> "Dining"
              [] lower = "groceries" -> "Groceries"
              [] lower = "shopping" -> "Shopping"
              [] lower = "transport" -> "Transport"
              [] OTHER -> "")
      [] persona = "Medium Spender" ->
           (CASE lower = "food" -> "Food"
              [] lower = "groceries" -> "Groceries"
              [] lower = "savings" -> "Savings"
              [] lower = "shopping" -> "Shopping"
              [] lower = "transport" -> "Transport"
              [] OTHER -> "")
      [] persona = "Max Saver" ->
           (CASE lower = "transport" -> "Transport"
              [] lower = "groceries" -> "Groceries"
              [] lower = "travel" -> "Travel"
              [] lower = "utilities" -> "Utilities"
              [] lower = "savings" -> "Savings"
              [] OTHER -> "")
      [] OTHER -> ""

normalizeCategory(category, persona) ==
    IF persona \notin Personas THEN category
    ELSE LET n == categoryMappings(persona, ToLowerCase(category))
         IN  IF n = "" THEN category ELSE n

\* categorySpending[category] || 0 of the budget_overrun template
CategorySpending(txs, persona, c) ==
    TotalAmount(SelectSeq(txs, LAMBDA t : normalizeCategory(t.category, persona) = c))

----------------------------------------------------------------------------
(* The insight templates (initializeInsightTemplates)                      *)
(* A user profile is [userId, spendingPersonality, salary].                *)

\* the template registry, in order: type, priority, title
insightTemplates == <<
    [type |-> "budget_overrun", priority |-> "critical", title |-> "Budget Limit Exceeded"],
    [type |-> "burn_risk", priority |-> "critical", title |-> "High Burn Risk Detected"],
    [type |-> "savings_opportunity", priority |-> "tip", title |-> "Savings Opportunity"],
    [type |-> "pattern", priority |-> "warning", title |-> "Spending Pattern Detected"],
    [type |-> "goal", priority |-> "info", title |-> "Goal Progress Update"],
    [type |-> "tip", priority |-> "tip", title |-> "Personalized Tip"],
    [type |-> "proactive_action", priority |-> "tip", title |-> "Proactive Financial Action"],
    [type |-> "smart_categorization", priority |-> "info", title |-> "Smart Categorization"],
    [type |-> "budget_cap_warning", priority |-> "warning", title |-> "Budget Cap Analysis"],
    [type |-> "predictive_spending", priority |-> "tip", title |-> "Predictive Spending Analysis"] >>

\* the threshold the burn_risk template compares the weekly count with
BurnRiskCount == 3
\* the threshold of the smart_categorization template
SmartCategorizationCount == 4

\* the entries "category (overrun over, percentage% of budget)" of the
\* budget_overrun text, in the order of the merged caps
OverBudgetCategories(txs, profile) ==
    LET caps == getBudgetDataForUser(profile.spendingPersonality, profile.userId)
        spent(i) == CategorySpending(txs, profile.spendingPersonality, caps[i].category)
        over == SelectSeq([i \in 1..Len(caps) |-> i],
                          LAMBDA i : spent(i) > caps[i].budgetCap)
    IN  [k \in 1..Len(over) |->
            LET i == over[k]
                overrun == spent(i) - caps[i].budgetCap
            IN  [category |-> caps[i].category,
                 overrun |-> overrun,
                 percentage |-> IF caps[i].budgetCap > 0
                                THEN RoundDiv(overrun * 1000, caps[i].budgetCap)
                                ELSE -1]]

\* the savings transactions of the goal template
SavingsTransactions(txs) ==
    SelectSeq(Recent(txs, 7),
              LAMBDA t : \/ IncludesSavings(ToLowerCase(t.category))
                         \/ IncludesSavings(ToLowerCase(t.merchant)))

\* Object.entries(dayOfWeekCounts).find(count >= 2): integer keys are
\* enumerated in ascending order; -1 when there is none
PatternDay(txs) ==
    LET recent == Recent(txs, 14)
        count(d) == Cardinality({i \in 1..Len(recent) : recent[i].date % 7 = d})
        days == {d \in 0..6 : count(d) >= 2}
    IN  IF days = {} THEN -1 ELSE CHOOSE d \in days : \A e \in days : d <= e

\* monthlyProjection of the proactive_action template: totalSpent / 5 * 30
MonthlyProjection(txs) == 6 * TotalAmount(Recent(txs, 5))

\* the most frequent category of the predictive_spending template: a stable
\* sort by descending count, first entry
MostFrequentCategory(txs) ==
    LET ks == CategoryKeys(txs)
        best == {i \in 1..Len(ks) :
                    \A j \in 1..Len(ks) : CategoryCount(txs, ks[i]) >= CategoryCount(txs, ks[j])}
    IN  ks[CHOOSE i \in best : \A j \in best : i <= j]

\* mutant: the budget_overrun template asks for at least one transaction
ConditionsNeedTransactions(type, txs, profile) ==
    CASE type = "budget_overrun" -> txs # <<>>
      [] type = "budget_cap_warning" -> TRUE
      [] type = "predictive_spending" -> TRUE
      [] OTHER -> FALSE

\* template.conditions(transactions, userProfile)
Conditions(type, txs, profile) ==
    CASE type = "budget_overrun" -> TRUE
      [] type = "burn_risk" ->
           FirstCategoryWithCount(Recent(txs, 7), BurnRiskCount) # ""
      [] type = "savings_opportunity" ->
           10 * TotalAmount(Recent(txs, 3)) < profile.salary
      [] type = "pattern" -> PatternDay(txs) # -1
      [] type = "goal" -> SavingsTransactions(txs) # <<>>
      [] type = "tip" -> profile.spendingPersonality = "Heavy Spender"
      [] type = "proactive_action" ->
           /\ 100 * MonthlyProjection(txs) > 15 * profile.salary
           /\ 10 * MonthlyProjection(txs) < 8 * profile.salary
      [] type = "smart_categorization" ->
           FirstCategoryWithCount(Recent(txs, 7), SmartCategorizationCount) # ""
      [] type = "budget_cap_warning" -> TRUE
      [] type = "predictive_spending" -> TRUE

\* template.generateContent(transactions, userProfile); random is the value
\* Math.floor(Math.random() * 5) + 3 of the predictive_spending template
GenerateContent(type, txs, profile, random) ==
    CASE type = "budget_overrun" ->
           IF NoBudgetForPersona(profile.spendingPersonality)
           THEN <<"Unable to analyze budget status.">>
           ELSE IF OverBudgetCategories(txs, profile) = <<>>
           THEN <<"Great job! You're staying within your budget limits.">>
           ELSE <<"Budget Alert: You've exceeded limits in", OverBudgetCategories(txs, profile)>>
      [] type = "burn_risk" ->
           LET recent == Recent(txs, 7)
               c == FirstCategoryWithCount(recent, BurnRiskCount)
           IN  IF c # ""
               THEN <<"You've made transactions in this week", CategoryCount(recent, c), c>>
               ELSE <<"Multiple similar transactions detected.">>
      [] type = "savings_opportunity" ->
           LET total == TotalAmount(Recent(txs, 3))
           IN  <<"You've spent in the last 3 days", total, profile.salary \div 5 - total>>
      [] type = "pattern" ->
           IF PatternDay(txs) # -1
           THEN <<"You tend to spend more on", PatternDay(txs)>>
           ELSE <<"We detected a recurring spending pattern.">>
      [] type = "goal" ->
           <<"Great job! You've saved this week", TotalAmount(SavingsTransactions(txs))>>
      [] type = "tip" ->
           IF profile.spendingPersonality = "Heavy Spender"
           THEN <<"As a Heavy Spender, you've spent this week", TotalAmount(Recent(txs, 7))>>
           ELSE IF profile.spendingPersonality = "Max Saver"
           THEN <<"Excellent saving behavior!">>
           ELSE <<"You're maintaining a good balance.">>
      [] type = "proactive_action" ->
           <<"Your current spending rate projects to", MonthlyProjection(txs),
             RoundDiv(MonthlyProjection(txs) * 1000, profile.salary)>>
      [] type = "smart_categorization" ->
           LET recent == Recent(txs, 7)
               c == FirstCategoryWithCount(recent, SmartCategorizationCount)
           IN  IF c # ""
               THEN <<"I noticed transactions in", CategoryCount(recent, c), c,
                      CategoryTotal(recent, c)>>
               ELSE <<"Your spending patterns suggest opportunities.">>
      [] type = "budget_cap_warning" ->
           IF NoBudgetForPersona(profile.spendingPersonality)
           THEN <<"Unable to analyze budget caps.">>
           ELSE LET caps == getBudgetDataForUser(profile.spendingPersonality, profile.userId)
                    total == SumSeq([i \in 1..Len(caps) |-> caps[i].budgetCap])
                    pct == RoundDiv(total * 1000, profile.salary)
                IN  IF 10 * total > 8 * profile.salary
                    THEN <<"Your total budget caps represent", total, pct>>
                    ELSE <<"Your budget caps are well-balanced at", pct>>
      [] type = "predictive_spending" ->
           LET recent == Recent(txs, 14)
           IN  IF recent = <<>>
               THEN <<"No recent transactions to analyze.">>
               ELSE LET c == MostFrequentCategory(recent)
                        n == CategoryCount(recent, c)
                    IN  <<"Next purchase predicted", c,
                          RoundDiv(CategoryTotal(recent, c), n),
                          Now + random, Min(85, Max(60, n * 10))>>

\* does the predictive_spending template draw a random number for this input?
UsesRandom(txs) == Recent(txs, 14) # <<>>

----------------------------------------------------------------------------
(* PredictiveAnalyticsService                                              *)

\* analyzeSpendingPatterns: the transactions of the last 30 days
Last30(txs) == Recent(txs, 30)

\* categoryTrends: keys are the lower-cased categories, in insertion order
TrendKeys(txs) ==
    KeysInOrder([i \in 1..Len(Last30(txs)) |-> ToLowerCase(Last30(txs)[i].category)])
TrendTotal(txs, lower) ==
    TotalAmount(SelectSeq(Last30(txs), LAMBDA t : ToLowerCase(t.category) = lower))

\* predictMonthlySpending minus monthlyAverage, times 10 * h1 * h2 (h1, h2 the
\* lengths of the two halves of the last 10 transactions); 0 with fewer than 5
TrendAdjustmentScaled(txs) ==
    LET last == Slice(txs, -10, Len(txs))
        h1 == Len(last) \div 2
        h2 == Len(last) - h1
        s1 == TotalAmount(SubSeq(last, 1, h1))
        s2 == TotalAmount(SubSeq(last, h1 + 1, Len(last)))
        monthly == 10 * h1 * h2 * TotalAmount(Last30(txs))
    IN  IF Len(last) < 5 THEN [adj |-> 0, scale |-> 1]
        ELSE [adj |-> Max(0, monthly + 3 * (s2 * h1 - s1 * h2)) - monthly,
              scale |-> 10 * h1 * h2]

\* the table of forecastBudgetOverrun: budgetCaps[personality][category] || 5000
ForecastCap(persona, category) ==
    LET p == IF persona \in Personas THEN persona ELSE "Medium Spender"
        dining == CASE p = "Heavy Spender" -> 8000 [] p = "Medium Spender" -> 5000 [] OTHER -> 3000
        shopping == CASE p = "Heavy Spender" -> 15000 [] p = "Medium Spender" -> 8000 [] OTHER -> 4000
        entertainment == CASE p = "Heavy Spender" -> 12000 [] p = "Medium Spender" -> 6000 [] OTHER -> 3000
        transport == CASE p = "Heavy Spender" -> 6000 [] p = "Medium Spender" -> 4000 [] OTHER -> 2500
        healthcare == CASE p = "Heavy Spender" -> 4000 [] p = "Medium Spender" -> 3000 [] OTHER -> 2000
        education == CASE p = "Heavy Spender" -> 8000 [] p = "Medium Spender" -> 5000 [] OTHER -> 3000
    IN  CASE category = "Dining" -> dining
          [] category = "Shopping" -> shopping
          [] category = "Entertainment" -> entertainment
          [] category = "Transport" -> transport
          [] category = "Healthcare" -> healthcare
          [] category = "Education" -> education
          [] OTHER -> 5000

\* forecastBudgetOverrun(transactions, user, category): thirty times the
\* predicted month total, and the cap it is compared with
forecastBudgetOverrun(txs, persona, category) ==
    LET cap == ForecastCap(persona, category)
        current == TotalAmount(SelectSeq(txs,
                      LAMBDA t : /\ ToLowerCase(t.category) = ToLowerCase(category)
                                 /\ t.date >= 1))
        daysRemaining == DaysInMonth - Now
        predicted30 == 30 * current + TrendTotal(txs, ToLowerCase(category)) * daysRemaining
    IN  [willOverrun |-> predicted30 > 30 * cap,
         budgetCap |-> cap,
         overrunAmount |-> Max(0, RoundDiv(predicted30 - 30 * cap, 30)),
         percentage |-> RoundMulDiv(predicted30, 1000, 30 * cap)]

\* the first three entries of categoryTrends sorted by descending total (a
\* stable sort)
TopCategories(txs, keys, n) ==
    LET order == SortIndices(Len(keys),
                     LAMBDA i, j : TrendTotal(txs, keys[i]) > TrendTotal(txs, keys[j]),
                     TRUE)
    IN  [k \in 1..Min(n, Len(keys)) |-> keys[order[k]]]

\* the test with no sort: the first record found
findLatestSalaryUnsorted(userId) ==
    IF salaries[userId] = <<>> THEN [salary |-> NoSalary, createdAt |-> 0]
    ELSE salaries[userId][1]

\* Salary.findOne({userId}).sort({createdAt: -1}); a record without salary
\* stands for null
findLatestSalary(userId) ==
    LET docs == salaries[userId]
        order == SortIndices(Len(docs),
                     LAMBDA i, j : docs[i].createdAt > docs[j].createdAt, TRUE)
    IN  IF docs = <<>> THEN [salary |-> NoSalary, createdAt |-> 0]
        ELSE docs[order[1]]

\* trackSavingsGoal
trackSavingsGoal(txs, persona, userId) ==
    LET current == TotalAmount(SelectSeq(txs, LAMBDA t : ToLowerCase(t.category) = "savings"))
        salaryRecord == findLatestSalary(userId)
        salary == IF salaryRecord.salary = NoSalary THEN 100000 ELSE salaryRecord.salary
        custom == SelectSeq(budgets[userId], LAMBDA b : b.category = "Savings")
        pct == CASE persona = "Heavy Spender" -> 5
                 [] persona = "Medium Spender" -> 20
                 [] persona = "Max Saver" -> 40
                 [] OTHER -> 20
        target == IF custom # <<>> THEN custom[1].budgetCap ELSE RoundDiv(salary * pct, 100)
    IN  [currentSavings |-> current, targetSavings |-> target,
         percentage |-> RoundDiv(current * 100, target)]

\* PredictiveAnalyticsService.generatePredictiveInsights: <<[type, message]>>
predictions(txs, persona, userId) ==
    LET t == TrendAdjustmentScaled(txs)
        spending == IF 10 * t.adj > t.scale * TotalAmount(Last30(txs))
                    THEN << [type |-> "spending_prediction",
                             message |-> <<"You're likely to spend more this month",
                                           RoundDiv(t.adj, t.scale)>>] >>
                    ELSE <<>>
        top == TopCategories(txs, TrendKeys(txs), 3)
        f(i) == forecastBudgetOverrun(txs, persona, top[i])
        over == SelectSeq([i \in 1..Len(top) |-> i], LAMBDA i : f(i).willOverrun)
        forecasts == [k \in 1..Len(over) |->
                        [type |-> "budget_forecast",
                         message |-> <<"At this rate, you'll exceed your budget", top[over[k]],
                                       f(over[k]).overrunAmount, f(over[k]).percentage>>]]
        g == trackSavingsGoal(txs, persona, userId)
    IN  spending \o forecasts \o
        << [type |-> "goal_tracking",
            message |-> <<"towards your savings goal", g.percentage,
                          g.currentSavings, g.targetSavings>>] >>

\* the type and priority generatePredictiveInsights (AgenticInsightService)
\* gives a prediction, and getPredictiveTitle
PredictiveType(ptype) == IF ptype = "goal_tracking" THEN "goal" ELSE "pattern"
PredictivePriority(ptype) ==
    CASE ptype = "spending_prediction" -> "warning"
      [] ptype = "budget_forecast" -> "critical"
      [] OTHER -> "info"
getPredictiveTitle(ptype) ==
    CASE ptype = "spending_prediction" -> "Spending Prediction"
      [] ptype = "budget_forecast" -> "Budget Forecast"
      [] ptype = "goal_tracking" -> "Goal Progress"
      [] OTHER -> "Predictive Insight"

----------------------------------------------------------------------------
(* UserBehaviorService                                                     *)
(* A profile is [patterns, sensitivityLevel]; patterns is responsePatterns *)
(* as the sequence of its entries [type, accepted, ignored, snoozed,       *)
(* dismissed, total] in insertion order.                                   *)

\* the response values of UserResponse['response']
BehaviorResponses == {"accepted", "ignored", "snoozed", "dismissed"}
\* the enum of AIInsightSchema.userResponse
InsightResponses == {"acted_on", "ignored", "dismissed", "get_tips_clicked"}

EmptyPattern(type) ==
    [type |-> type, accepted |-> 0, ignored |-> 0, snoozed |-> 0, dismissed |-> 0, total |-> 0]

\* pattern[response]++ ; pattern.total++  (a response that names no counter
\* creates a NaN property and leaves the four counters alone)
Bump(pattern, response) ==
    [pattern EXCEPT
        !.accepted = IF response = "accepted" THEN @ + 1 ELSE @,
        !.ignored = IF response = "ignored" THEN @ + 1 ELSE @,
        !.snoozed = IF response = "snoozed" THEN @ + 1 ELSE @,
        !.dismissed = IF response = "dismissed" THEN @ + 1 ELSE @,
        !.total = @ + 1]

SumOver(patterns, Field(_)) == SumSeq([i \in 1..Len(patterns) |-> Field(patterns[i])])

\* mutant: the two rates compared with >= instead of >
calculateSensitivityLevelInclusive(patterns) ==
    LET totalResponses == SumOver(patterns, LAMBDA q : q.total)
        ignored == SumOver(patterns, LAMBDA q : q.ignored)
        accepted == SumOver(patterns, LAMBDA q : q.accepted)
    IN  IF totalResponses < 5 THEN "medium"
        ELSE IF 10 * ignored >= 7 * totalResponses THEN "low"
        ELSE IF 10 * accepted >= 6 * totalResponses THEN "high"
        ELSE "medium"

\* calculateSensitivityLevel: ignoredRate > 0.7, acceptedRate > 0.6
calculateSensitivityLevel(patterns) ==
    LET totalResponses == SumOver(patterns, LAMBDA q : q.total)
        ignored == SumOver(patterns, LAMBDA q : q.ignored)
        accepted == SumOver(patterns, LAMBDA q : q.accepted)
    IN  IF totalResponses < 5 THEN "medium"
        ELSE IF 10 * ignored > 7 * totalResponses THEN "low"
        ELSE IF 10 * accepted > 6 * totalResponses THEN "high"
        ELSE "medium"

\* updateUserProfile(userId, response): the profile it leaves in the map
updateUserProfile(profile, insightType, response) ==
    LET old == IF profile = NoProfile THEN <<>> ELSE profile.patterns
        with == IF \E i \in 1..Len(old) : old[i].type = insightType
                THEN old ELSE Append(old, EmptyPattern(insightType))
        new == [i \in 1..Len(with) |->
                  IF with[i].type = insightType THEN Bump(with[i], response) ELSE with[i]]
    IN  [patterns |-> new, sensitivityLevel |-> calculateSensitivityLevel(new)]

\* sensitivityMultiplier, in tenths
SensitivityMultiplier(level) ==
    CASE level = "low" -> 15 [] level = "medium" -> 10 [] level = "high" -> 7

\* mutant: Math.floor in place of Math.round in burnRiskThreshold
getAdaptiveThresholdsFloor(userId) ==
    LET m == IF userProfiles[userId] = NoProfile THEN 10
             ELSE SensitivityMultiplier(userProfiles[userId].sensitivityLevel)
    IN  [budgetOverrunThreshold |-> (100 * m) \div 10,
         burnRiskThreshold |-> Max(3, (5 * m) \div 10),
         savingsGoalThreshold |-> (50 * m) \div 10,
         responseTimeThreshold |-> (60 * m) \div 10]

\* getAdaptiveThresholds(userId)
getAdaptiveThresholds(userId) ==
    LET m == IF userProfiles[userId] = NoProfile THEN 10
             ELSE SensitivityMultiplier(userProfiles[userId].sensitivityLevel)
    IN  [budgetOverrunThreshold |-> (100 * m) \div 10,
         burnRiskThreshold |-> IF userProfiles[userId] = NoProfile THEN 5
                               ELSE Max(3, RoundDiv(5 * m, 10)),
         savingsGoalThreshold |-> (50 * m) \div 10,
         responseTimeThreshold |-> (60 * m) \div 10]

\* getBehavioralInsights(userId): the messages, in order
getBehavioralInsights(userId) ==
    LET profile == userProfiles[userId]
        ps == profile.patterns
        told == SelectSeq([i \in 1..Len(ps) |-> i],
                   LAMBDA i : /\ ps[i].total >= 3
                              /\ \/ 10 * ps[i].ignored > 8 * ps[i].total
                                 \/ 10 * ps[i].accepted > 7 * ps[i].total)
        perType == [k \in 1..Len(told) |->
                      IF 10 * ps[told[k]].ignored > 8 * ps[told[k]].total
                      THEN <<"You often ignore alerts of type", ps[told[k]].type>>
                      ELSE <<"You respond well to insights of type", ps[told[k]].type>>]
        hours == IF ps # <<>> THEN << <<"I notice you're most active around">> >> ELSE <<>>
        level == CASE profile.sensitivityLevel = "low" ->
                        << <<"I've reduced alert sensitivity">> >>
                   [] profile.sensitivityLevel = "high" ->
                        << <<"I've increased alert sensitivity">> >>
                   [] OTHER -> <<>>
    IN  IF profile = NoProfile THEN <<>> ELSE perType \o hours \o level

\* getOptimalTiming(userId).shouldSend; likelyActive is isUserLikelyActive,
\* which depends on the hour of the day of the call
getOptimalTiming(userId, likelyActive) ==
    IF userProfiles[userId] = NoProfile THEN TRUE ELSE likelyActive

----------------------------------------------------------------------------
(* AgenticInsightService                                                   *)

\* new AIInsight({...}); createdAt is stamped by insertMany
NewInsight(userId, id, type, priority, title, content, related, templateType, profile) ==
    [userId |-> userId, insightId |-> id, type |-> type, priority |-> priority,
     title |-> title, content |-> content, isActive |-> TRUE, createdAt |-> clock,
     userResponse |-> "", relatedTransactions |-> related,
     templateType |-> templateType,
     spendingPersonality |-> profile.spendingPersonality]

\* transactions.slice(-5).map(t => t.id)
RelatedTransactions(txs) ==
    LET last == Slice(txs, -5, Len(txs)) IN [i \in 1..Len(last) |-> last[i].id]

\* the loop over the templates: one insight per template whose conditions hold
TemplateInsights(userId, txs, profile, random, firstId) ==
    LET fired == SelectSeq([i \in 1..Len(insightTemplates) |-> i],
                    LAMBDA i : Conditions(insightTemplates[i].type, txs, profile))
    IN  [k \in 1..Len(fired) |->
            LET t == insightTemplates[fired[k]]
            IN  NewInsight(userId, firstId + k - 1, t.type, t.priority, t.title,
                           GenerateContent(t.type, txs, profile, random),
                           RelatedTransactions(txs), t.type, profile)]

\* generatePredictiveInsights (AgenticInsightService)
PredictiveInsights(userId, txs, profile, firstId) ==
    LET ps == predictions(txs, profile.spendingPersonality, userId)
    IN  [k \in 1..Len(ps) |->
            NewInsight(userId, firstId + k - 1, PredictiveType(ps[k].type),
                       PredictivePriority(ps[k].type), getPredictiveTitle(ps[k].type),
                       ps[k].message, RelatedTransactions(txs), "predictive", profile)]

\* generateBehavioralInsights
BehavioralInsights(userId, profile, likelyActive, firstId) ==
    LET msgs == IF getOptimalTiming(userId, likelyActive)
                THEN getBehavioralInsights(userId) ELSE <<>>
        behavioral == [k \in 1..Len(msgs) |->
                         NewInsight(userId, firstId + k - 1, "agentic_analysis", "info",
                                    "Behavioral Adaptation", msgs[k], <<>>,
                                    "behavioral", profile)]
        thresholds == getAdaptiveThresholds(userId)
        adaptive ==
            IF /\ userProfiles[userId] # NoProfile
               /\ userProfiles[userId].sensitivityLevel # "medium"
            THEN << NewInsight(userId, firstId + Len(msgs), "agentic_analysis", "info",
                        "Adaptive Thresholds",
                        <<"I've adjusted alert sensitivity based on your behavior",
                          thresholds.budgetOverrunThreshold, thresholds.burnRiskThreshold>>,
                        <<>>, "adaptive_thresholds", profile) >>
            ELSE <<>>
    IN  behavioral \o adaptive

\* generatedInsights of generateInsightsForUser, in the order they are
\* pushed: the template insights, the predictive ones, the behavioural ones
WithBehavioral(soFar, userId, profile, likelyActive) ==
    soFar \o BehavioralInsights(userId, profile, likelyActive, nextId + Len(soFar))
WithPredictive(soFar, userId, txs, profile, likelyActive) ==
    WithBehavioral(soFar \o PredictiveInsights(userId, txs, profile, nextId + Len(soFar)),
                   userId, profile, likelyActive)
GeneratedInsights(userId, txs, profile, random, likelyActive) ==
    WithPredictive(TemplateInsights(userId, txs, profile, random, nextId),
                   userId, txs, profile, likelyActive)

InitRet == [op |-> "init", userId |-> "", arg |-> <<>>, status |-> "ok", value |-> <<>>]

\* generateInsightsForUser(userId, transactions, userProfile), the insertMany
\* included
generateInsightsForUser(userId, txs, profile, random, likelyActive) ==
    \E generated \in {GeneratedInsights(userId, txs, profile, random, likelyActive)} :
        /\ aiInsights' = aiInsights \o generated
        /\ nextId' = nextId + Len(generated)
        /\ clock' = clock + 1
        /\ ret' = [op |-> "generate", userId |-> userId,
                   arg |-> [transactions |-> txs, userProfile |-> profile],
                   status |-> "ok", value |-> generated]

\* generateInsightsForUser when the database is down: the first Budget.find
\* rejects and the call throws before anything is stored
generateInsightsThrows(userId, txs, profile) ==
    /\ ret' = [op |-> "generate", userId |-> userId,
               arg |-> [transactions |-> txs, userProfile |-> profile],
               status |-> "throws", value |-> <<>>]
    /\ UNCHANGED insightVars

\* mutant: the sort direction inverted (oldest first)
SortByCreatedAtAsc(docs, tiesReversed) ==
    LET order == SortIndices(Len(docs),
                     LAMBDA i, j : docs[i].createdAt < docs[j].createdAt,
                     ~tiesReversed)
    IN  [k \in 1..Len(docs) |-> docs[order[k]]]

\* AIInsight.find({userId, isActive: true}).sort({createdAt: -1}): documents
\* with equal createdAt come in insertion order, or in the opposite order
SortByCreatedAtDesc(docs, tiesReversed) ==
    LET order == SortIndices(Len(docs),
                     LAMBDA i, j : docs[i].createdAt > docs[j].createdAt,
                     ~tiesReversed)
    IN  [k \in 1..Len(docs) |-> docs[order[k]]]

\* mutant: the find without the isActive filter
FindAnyActivity(userId, tiesReversed) ==
    SortByCreatedAtDesc(SelectSeq(aiInsights, LAMBDA d : d.userId = userId), tiesReversed)

\* AIInsight.find({ userId, isActive: true }).sort({ createdAt: -1 })
FindActive(userId, tiesReversed) ==
    SortByCreatedAtDesc(
        SelectSeq(aiInsights, LAMBDA d : d.userId = userId /\ d.isActive),
        tiesReversed)

\* mutant: the duplicate filter dropped
UniqueInsightsUnfiltered(docs) == docs

\* insights.filter((insight, index, self) => index === self.findIndex(same
\* type and content))
UniqueInsights(docs) ==
    LET keep == SelectSeq([i \in 1..Len(docs) |-> i],
                   LAMBDA i : \A j \in 1..(i - 1) :
                                 ~(docs[j].type = docs[i].type /\ docs[j].content = docs[i].content))
    IN  [k \in 1..Len(keep) |-> docs[keep[k]]]

\* getActiveInsightsForUser(userId, limit)
getActiveInsightsForUser(userId, limit, tiesReversed) ==
    Slice(UniqueInsights(FindActive(userId, tiesReversed)), 0, limit)

\* mutant: the filter without the userId
FindOneOfAnyUser(insightId, userId) ==
    IF \E i \in 1..Len(aiInsights) : aiInsights[i].insightId = insightId
    THEN CHOOSE i \in 1..Len(aiInsights) : aiInsights[i].insightId = insightId
    ELSE 0

\* AIInsight.findOneAndUpdate({insightId, userId}, update): the index of the
\* document, 0 when there is none
FindOne(insightId, userId) ==
    IF \E i \in 1..Len(aiInsights) :
          aiInsights[i].insightId = insightId /\ aiInsights[i].userId = userId
    THEN CHOOSE i \in 1..Len(aiInsights) :
          aiInsights[i].insightId = insightId /\ aiInsights[i].userId = userId
    ELSE 0

\* deactivateInsight(insightId, userId)
deactivateInsight(insightId, userId) ==
    LET i == FindOne(insightId, userId)
    IN  /\ aiInsights' = IF i = 0 THEN aiInsights
                         ELSE [aiInsights EXCEPT ![i].isActive = FALSE]
        /\ ret' = [op |-> "deactivate", userId |-> userId, arg |-> insightId,
                   status |-> IF i = 0 THEN "404" ELSE "ok", value |-> <<>>]
        /\ UNCHANGED <<nextId, clock>>

----------------------------------------------------------------------------
(* The insight response route and recordUserResponse                       *)

\* UserBehaviorService.recordUserResponse(userId, insightId, response,
\* insightType, insightPriority)
recordUserResponse(userId, response, insightType) ==
    /\ userProfiles' = [userProfiles EXCEPT
                           ![userId] = updateUserProfile(@, insightType, response)]
    /\ responseCount' = [responseCount EXCEPT
                            ![userId].total = @ + 1,
                            ![userId].actedOn = IF response = "acted_on" THEN @ + 1 ELSE @]

\* PUT /:userId/insights/:insightId/response: updateInsightResponse, then
\* recordUserResponse with the type of the updated insight
PutInsightResponse(userId, insightId, response) ==
    LET i == FindOne(insightId, userId)
    IN  IF i = 0
        THEN /\ ret' = [op |-> "respond", userId |-> userId, arg |-> insightId,
                        status |-> "404", value |-> <<>>]
             /\ UNCHANGED <<aiInsights, userProfiles, responseCount>>
        ELSE /\ aiInsights' = [aiInsights EXCEPT ![i].userResponse = response]
             /\ recordUserResponse(userId, response, aiInsights[i].type)
             /\ ret' = [op |-> "respond", userId |-> userId, arg |-> insightId,
                        status |-> "ok",
                        value |-> <<[aiInsights[i] EXCEPT !.userResponse = response]>>]

----------------------------------------------------------------------------
(* NotificationService                                                     *)

\* userSockets.get(userId), NoSocket for undefined
SocketOf(userId) ==
    IF \E i \in 1..Len(userSockets) : userSockets[i].userId = userId
    THEN userSockets[CHOOSE i \in 1..Len(userSockets) : userSockets[i].userId = userId].socketId
    ELSE NoSocket

\* userSockets.set(userId, socketId): an existing key keeps its place
SetSocket(map, userId, socketId) ==
    IF \E i \in 1..Len(map) : map[i].userId = userId
    THEN [i \in 1..Len(map) |->
            IF map[i].userId = userId THEN [userId |-> userId, socketId |-> socketId]
            ELSE map[i]]
    ELSE Append(map, [userId |-> userId, socketId |-> socketId])

\* the disconnect handler's loop: delete the first entry that holds the
\* socket, then break
RemoveFirstEntryOf(map, socketId) ==
    LET hits == {i \in 1..Len(map) : map[i].socketId = socketId}
        first == CHOOSE i \in hits : \A j \in hits : i <= j
    IN  IF hits = {} THEN map
        ELSE [k \in 1..(Len(map) - 1) |-> IF k < first THEN map[k] ELSE map[k + 1]]

\* io.to(socketId).emit(...): the sockets in the room named socketId, which
\* holds that socket while it is connected
Room(socketId, state) == {s \in Sockets : s = socketId /\ state[s] = "open"}

\* sendNotification(userId, notification): the sockets the notification is
\* emitted to, read in the state (map, state)
Recipients(userId, ioSet, map, state) ==
    LET entries == {i \in 1..Len(map) : map[i].userId = userId}
    IN  IF ~ioSet \/ entries = {} THEN {}
        ELSE Room(map[CHOOSE i \in entries : TRUE].socketId, state)

SendStatus(userId, ioSet, map) ==
    IF ~ioSet THEN "not initialized"
    ELSE IF \A i \in 1..Len(map) : map[i].userId # userId THEN "not connected"
    ELSE "sent"

\* getConnectedUsersCount(): userSockets.size
getConnectedUsersCount == Len(userSockets)

\* isUserConnected(userId): userSockets.has(userId)
isUserConnected(userId) == \E i \in 1..Len(userSockets) : userSockets[i].userId = userId

\* initialize(server)
Initialize ==
    /\ ~io
    /\ io' = TRUE
    /\ ret' = [op |-> "initialize", userId |-> "", arg |-> <<>>, status |-> "ok", value |-> <<>>]
    /\ UNCHANGED <<userSockets, socketState, lastAuth>>

\* io.on('connection'): a socket with a fresh id connects
Connect(s) ==
    /\ io
    /\ socketState[s] = "new"
    /\ socketState' = [socketState EXCEPT ![s] = "open"]
    /\ ret' = [op |-> "connect", userId |-> "", arg |-> s, status |-> "ok", value |-> <<>>]
    /\ UNCHANGED <<io, userSockets, lastAuth>>

\* socket.on('authenticate', userId): register, then send the welcome
\* notification
Authenticate(s, userId) ==
    /\ socketState[s] = "open"
    /\ userSockets' = SetSocket(userSockets, userId, s)
    /\ lastAuth' = [lastAuth EXCEPT ![userId] = s]
    /\ ret' = [op |-> "send", userId |-> userId, arg |-> "welcome",
               status |-> SendStatus(userId, io, userSockets'),
               value |-> Recipients(userId, io, userSockets', socketState)]
    /\ UNCHANGED <<io, socketState>>

\* socket.on('disconnect')
Disconnect(s) ==
    /\ socketState[s] = "open"
    /\ socketState' = [socketState EXCEPT ![s] = "closed"]
    /\ userSockets' = RemoveFirstEntryOf(userSockets, s)
    /\ ret' = [op |-> "disconnect", userId |-> "", arg |-> s, status |-> "ok", value |-> <<>>]
    /\ UNCHANGED <<io, lastAuth>>

\* sendNotification(userId, notification)
SendNotification(userId) ==
    /\ ret' = [op |-> "send", userId |-> userId, arg |-> "notification",
               status |-> SendStatus(userId, io, userSockets),
               value |-> Recipients(userId, io, userSockets, socketState)]
    /\ UNCHANGED socketVars

----------------------------------------------------------------------------
(* Initial state: empty collections, a fresh UserBehaviorService and an    *)
(* uninitialized NotificationService                                       *)

NoInput == [userId |-> "", transactions |-> <<>>,
            userProfile |-> [userId |-> "", spendingPersonality |-> "", salary |-> 0]]

InsightInit == aiInsights = <<>> /\ nextId = 1 /\ clock = 1
DataInit == budgets = [u \in Users |-> <<>>] /\ salaries = [u \in Users |-> <<>>]
BehaviorInit == userProfiles = [u \in Users |-> NoProfile] /\ responseCount = [u \in Users |-> NoResponses]
SocketInit ==
    /\ io = FALSE
    /\ userSockets = <<>>
    /\ socketState = [s \in Sockets |-> "new"]
    /\ lastAuth = [u \in Users |-> NoSocket]

\* no call to the external API made
NoCompletion == [kind |-> "none", choices |-> <<>>]
\* no key in config.openaiApiKey (its default ''), no call made yet
LlmInit == llm = [apiKey |-> FALSE, calls |-> 0, outcome |-> NoCompletion]
\* index.ts has armed the timer that calls connectDB; NODE_ENV is not
\* 'production'
NotStarted(nodeEnv) ==
    [pc |-> "timer", attempt |-> 0, nodeEnv |-> nodeEnv, connected |-> FALSE,
     failed |-> 0, delays |-> 0, exitCode |-> 0]
DbInit == db = NotStarted("development")
NoUser == [exists |-> FALSE, spendingPersonality |-> "", salary |-> 0]
CollectionInit ==
    users = [u \in Users |-> NoUser] /\ transactions = <<>> /\ nudges = <<>>
OutboxInit ==
    outbox = [next |-> 1, queued |-> [u \in Users |-> {}], emitted |-> [u \in Users |-> {}]]
PlatformInit == LlmInit /\ DbInit /\ CollectionInit /\ OutboxInit

Init ==
    /\ InsightInit /\ DataInit /\ BehaviorInit /\ SocketInit /\ PlatformInit
    /\ input = NoInput
    /\ ret = InitRet

\* the values Math.random yields in the predictive_spending template
RandomFor(txs) == IF UsesRandom(txs) THEN 3..7 ELSE {3}
\* the values isUserLikelyActive can take for the user at the time of the call
ActiveFor(userId) == IF userProfiles[userId] = NoProfile THEN {TRUE} ELSE BOOLEAN

----------------------------------------------------------------------------
(* Spec: the insight store.  Insights are generated for the users, read    *)
(* back with getActiveInsightsForUser and deactivated.                     *)

OldTx == [id |-> "t0", amount |-> 13000, category |-> "Groceries",
          merchant |-> "Mart", date |-> Now - 15]
StoreTxLists == {<<>>, <<OldTx>>}
StoreProfile(u) == [userId |-> u, spendingPersonality |-> "Heavy Spender", salary |-> 100000]

InactiveCount == Cardinality({i \in 1..Len(aiInsights) : ~aiInsights[i].isActive})

StoreGenerate ==
    /\ clock <= MaxBatches
    /\ \E u \in Users, txs \in StoreTxLists :
          \E random \in RandomFor(txs), likelyActive \in ActiveFor(u) :
              generateInsightsForUser(u, txs, StoreProfile(u), random, likelyActive)
    /\ UNCHANGED <<budgets, salaries, behaviorVars, input, socketVars, platformVars>>

StoreGenerateThrows ==
    /\ \E u \in Users, txs \in StoreTxLists : generateInsightsThrows(u, txs, StoreProfile(u))
    /\ UNCHANGED <<budgets, salaries, behaviorVars, input, socketVars, platformVars>>

GetActiveInsights ==
    /\ \E u \in Users, limit \in 0..MaxLimit, tiesReversed \in BOOLEAN :
          ret' = [op |-> "getActive", userId |-> u, arg |-> limit, status |-> "ok",
                  value |-> getActiveInsightsForUser(u, limit, tiesReversed)]
    /\ UNCHANGED <<insightVars, budgets, salaries, behaviorVars, input, socketVars, platformVars>>

DeactivateInsight ==
    /\ InactiveCount < MaxInactive
    /\ \E u \in Users, id \in 1..(nextId - 1) : deactivateInsight(id, u)
    /\ UNCHANGED <<budgets, salaries, behaviorVars, input, socketVars, platformVars>>

Next == StoreGenerate \/ StoreGenerateThrows \/ GetActiveInsights \/ DeactivateInsight

Spec == Init /\ [][Next]_vars

----------------------------------------------------------------------------
(* Claims about the insight store (Spec)                                   *)

SameInsight(a, b) == a.type = b.type /\ a.content = b.content
Stored(d) == \E i \in 1..Len(aiInsights) : aiInsights[i] = d
ActiveOf(userId) == {i \in 1..Len(aiInsights) :
                        aiInsights[i].userId = userId /\ aiInsights[i].isActive}

\* C1: whatever was generated before, getActiveInsightsForUser(userId, limit)
\* returns at most `limit` insights, all of them stored, of that user and
\* active, and no two of them with the same type and the same content.
C1_ActiveInsightsDeduplicated ==
    ret.op = "getActive" =>
        /\ Len(ret.value) <= ret.arg
        /\ \A i \in 1..Len(ret.value) :
              /\ Stored(ret.value[i])
              /\ ret.value[i].userId = ret.userId
              /\ ret.value[i].isActive
        /\ \A i, j \in 1..Len(ret.value) :
              i # j => ~SameInsight(ret.value[i], ret.value[j])

\* C1 witness: a full result of at least two insights, read while the user
\* has two active insights with the same type and content (two identical
\* generate calls) and a deactivated one.
C1_Witness ==
    /\ ret.op = "getActive"
    /\ ret.arg >= 2
    /\ Len(ret.value) = ret.arg
    /\ \E i, j \in ActiveOf(ret.userId) : i # j /\ SameInsight(aiInsights[i], aiInsights[j])
    /\ \E i \in 1..Len(aiInsights) :
          aiInsights[i].userId = ret.userId /\ ~aiInsights[i].isActive

\* critical > warning > tip > info
PriorityRank(priority) ==
    CASE priority = "critical" -> 3
      [] priority = "warning" -> 2
      [] priority = "tip" -> 1
      [] OTHER -> 0

\* the user's active insights that the result does not represent
Omitted == {i \in ActiveOf(ret.userId) :
               \A k \in 1..Len(ret.value) : ~SameInsight(aiInsights[i], ret.value[k])}

\* C2 as claimed: the result is in priority order, and no omitted insight has
\* a higher priority than a returned one.
C2_AsClaimed ==
    ret.op = "getActive" =>
        /\ \A i, j \in 1..Len(ret.value) :
              i < j => PriorityRank(ret.value[i].priority) >= PriorityRank(ret.value[j].priority)
        /\ \A i \in Omitted : \A k \in 1..Len(ret.value) :
              PriorityRank(aiInsights[i].priority) <= PriorityRank(ret.value[k].priority)

\* C2 amended: the result is ordered by creation time, newest first, and no
\* omitted insight is newer than a returned one; the priority plays no part.
C2_NewestFirst ==
    ret.op = "getActive" =>
        /\ \A i, j \in 1..Len(ret.value) :
              i < j => ret.value[i].createdAt >= ret.value[j].createdAt
        /\ \A i \in Omitted : \A k \in 1..Len(ret.value) :
              aiInsights[i].createdAt <= ret.value[k].createdAt

\* C2 witness: a result that spans two insertMany batches and leaves out an
\* insight of a higher priority than one it returns.
C2_Witness ==
    /\ ret.op = "getActive"
    /\ \E i, j \in 1..Len(ret.value) : ret.value[i].createdAt > ret.value[j].createdAt
    /\ \E i \in Omitted : \E k \in 1..Len(ret.value) :
          PriorityRank(aiInsights[i].priority) > PriorityRank(ret.value[k].priority)

----------------------------------------------------------------------------
(* SpecGen: one call of generateInsightsForUser on every input.  The       *)
(* initial state holds the arguments, the user's Budget documents and the  *)
(* behaviour profile earlier responses have left.                          *)

GenUser == "u1"

\* the profile that n responses of one kind to insights of type "tip" leave
RECURSIVE ProfileAfter(_, _)
ProfileAfter(response, n) ==
    IF n = 0 THEN NoProfile
    ELSE updateUserProfile(ProfileAfter(response, n - 1), "tip", response)

BehaviorProfiles ==
    {NoProfile, ProfileAfter("ignored", 5), ProfileAfter("accepted", 5)}

\* the user's Budget documents
BudgetChoices ==
    { <<>>,
      << [category |-> "Groceries", budgetCap |-> 50000] >>,
      << [category |-> "Dining", budgetCap |-> 5000] >> }

GenInit ==
    /\ InsightInit /\ SocketInit /\ PlatformInit
    /\ ret = InitRet
    /\ \E txs \in TxLists, persona \in AnyPersona, salary \in Salaries :
          /\ input = [userId |-> GenUser, transactions |-> txs,
                      userProfile |-> [userId |-> GenUser,
                                       spendingPersonality |-> persona,
                                       salary |-> salary]]
          /\ salaries = [u \in Users |->
                            IF u = GenUser THEN <<[salary |-> salary, createdAt |-> 0]>>
                            ELSE <<>>]
    /\ \E custom \in BudgetChoices :
          budgets = [u \in Users |-> IF u = GenUser THEN custom ELSE <<>>]
    /\ \E profile \in BehaviorProfiles :
          userProfiles = [u \in Users |-> IF u = GenUser THEN profile ELSE NoProfile]
    /\ responseCount = [u \in Users |-> NoResponses]

GenGenerate ==
    /\ ret.op = "init"
    /\ \E random \in RandomFor(input.transactions), likelyActive \in ActiveFor(input.userId) :
          generateInsightsForUser(input.userId, input.transactions, input.userProfile,
                                  random, likelyActive)
    /\ UNCHANGED <<budgets, salaries, behaviorVars, input, socketVars, platformVars>>

GenGenerateThrows ==
    /\ ret.op = "init"
    /\ generateInsightsThrows(input.userId, input.transactions, input.userProfile)
    /\ UNCHANGED <<budgets, salaries, behaviorVars, input, socketVars, platformVars>>

GenNext == GenGenerate \/ GenGenerateThrows

SpecGen == GenInit /\ [][GenNext]_vars

----------------------------------------------------------------------------
(* Claims about one generation (SpecGen)                                   *)

Generated == ret.op = "generate" /\ ret.status = "ok"
TemplateTypes == {insightTemplates[i].type : i \in 1..Len(insightTemplates)}
TemplateIndex(type) == CHOOSE i \in 1..Len(insightTemplates) : insightTemplates[i].type = type
CountOfType(insights, type) == Cardinality({i \in 1..Len(insights) : insights[i].type = type})
AlwaysFiring == {"budget_overrun", "budget_cap_warning", "predictive_spending"}

\* C3: a generateInsightsForUser call that returns gives exactly one insight
\* of each of the types budget_overrun, budget_cap_warning and
\* predictive_spending, whatever the transactions and the profile; the
\* insights made from templates come first, budget_overrun at their head, in
\* the order of the template registry, and the predictive and behavioural
\* insights follow them.
C3_ThreeTemplatesAlwaysFire ==
    Generated =>
        /\ \A t \in AlwaysFiring : CountOfType(ret.value, t) = 1
        /\ ret.value[1].type = "budget_overrun"
        /\ \E k \in 1..Len(ret.value) :
              /\ \A i \in 1..k : ret.value[i].templateType \in TemplateTypes
              /\ \A i \in (k + 1)..Len(ret.value) : ret.value[i].templateType \notin TemplateTypes
              /\ \A i, j \in 1..k :
                    i < j => TemplateIndex(ret.value[i].templateType)
                                < TemplateIndex(ret.value[j].templateType)

\* C3 witness: a call with no transactions that returns a template insight
\* besides the three, a predictive insight and a behavioural one.
C3_Witness ==
    /\ Generated
    /\ ret.arg.transactions = <<>>
    /\ \E i \in 1..Len(ret.value) : ret.value[i].templateType \in TemplateTypes \ AlwaysFiring
    /\ \E i \in 1..Len(ret.value) : ret.value[i].templateType = "predictive"
    /\ \E i \in 1..Len(ret.value) : ret.value[i].templateType = "behavioral"

\* the budget category a transaction category belongs to, as the claim has it
FoodNames == {"food", "dining", "food & dining"}
BelongsTo(category, budgetCategory) ==
    \/ ToLowerCase(category) = ToLowerCase(budgetCategory)
    \/ ToLowerCase(category) \in FoodNames /\ budgetCategory = "Food & Dining"

\* the content of the budget_overrun insight of the last call
BudgetOverrunContent ==
    ret.value[CHOOSE i \in 1..Len(ret.value) : ret.value[i].type = "budget_overrun"].content

\* C4 as claimed: the budget_overrun insight lists exactly the categories of
\* the merged caps whose cap is below the sum of the transactions that belong
\* to the category ('food', 'dining' and 'food & dining' belonging to
\* 'Food & Dining'), and says the user is within budget when there is none.
C4_AsClaimed ==
    (Generated /\ ret.arg.userProfile.spendingPersonality \in Personas) =>
        LET caps == getBudgetDataForUser(ret.arg.userProfile.spendingPersonality, ret.userId)
            txs == ret.arg.transactions
            exceeded == SelectSeq(caps, LAMBDA b :
                           TotalAmount(SelectSeq(txs, LAMBDA t : BelongsTo(t.category, b.category)))
                              > b.budgetCap)
            listed == IF Len(BudgetOverrunContent) = 2 THEN BudgetOverrunContent[2] ELSE <<>>
        IN  /\ [i \in 1..Len(listed) |-> listed[i].category]
                  = [i \in 1..Len(exceeded) |-> exceeded[i].category]
            /\ exceeded = <<>> =>
                  BudgetOverrunContent = <<"Great job! You're staying within your budget limits.">>

\* C9 as claimed: for a user of low or high sensitivity, burn_risk is emitted
\* only when a category has at least burnRiskThreshold transactions in the
\* last 7 days, and a category is listed as over budget only when its spending
\* exceeds budgetOverrunThreshold percent of its cap.
C9_AsClaimed ==
    (/\ Generated
     /\ userProfiles[ret.userId] # NoProfile
     /\ userProfiles[ret.userId].sensitivityLevel \in {"low", "high"}) =>
        LET thresholds == getAdaptiveThresholds(ret.userId)
            recent == Recent(ret.arg.transactions, 7)
            caps == getBudgetDataForUser(ret.arg.userProfile.spendingPersonality, ret.userId)
            listed == IF Len(BudgetOverrunContent) = 2 THEN BudgetOverrunContent[2] ELSE <<>>
        IN  /\ CountOfType(ret.value, "burn_risk") > 0 =>
                  \E i \in 1..Len(recent) :
                      CategoryCount(recent, recent[i].category) >= thresholds.burnRiskThreshold
            /\ \A i \in 1..Len(listed) : \A j \in 1..Len(caps) :
                  caps[j].category = listed[i].category =>
                      100 * (listed[i].overrun + caps[j].budgetCap)
                          > thresholds.budgetOverrunThreshold * caps[j].budgetCap

----------------------------------------------------------------------------
(* SpecBehavior: the responses of one user.  Insights are generated once;  *)
(* the user answers them through the response route, the behaviour service *)
(* also records responses handed to it directly, and the adaptive          *)
(* thresholds are read.                                                    *)

\* the insight the route is called for (the first one generated), and an id
\* no insight has
RespondIds == {1, nextId}
\* the insight type of the responses handed to recordUserResponse directly
DirectType == "tip"

BehGenerate ==
    /\ aiInsights = <<>>
    /\ generateInsightsForUser(GenUser, <<>>, StoreProfile(GenUser), 3, TRUE)
    /\ UNCHANGED <<budgets, salaries, behaviorVars, input, socketVars, platformVars>>

BehRespond ==
    /\ aiInsights # <<>>
    /\ responseCount[GenUser].total < MaxResponses
    /\ \E id \in RespondIds, response \in InsightResponses :
          PutInsightResponse(GenUser, id, response)
    /\ UNCHANGED <<nextId, clock, budgets, salaries, input, socketVars, platformVars>>

BehRecord ==
    /\ responseCount[GenUser].total < MaxResponses
    /\ \E response \in BehaviorResponses :
          /\ recordUserResponse(GenUser, response, DirectType)
          /\ ret' = [op |-> "record", userId |-> GenUser, arg |-> response,
                     status |-> "ok", value |-> <<>>]
    /\ UNCHANGED <<insightVars, budgets, salaries, input, socketVars, platformVars>>

BehThresholds ==
    /\ \E u \in Users :
          ret' = [op |-> "thresholds", userId |-> u, arg |-> <<>>, status |-> "ok",
                  value |-> getAdaptiveThresholds(u)]
    /\ UNCHANGED <<insightVars, budgets, salaries, behaviorVars, input, socketVars, platformVars>>

BehNext == BehGenerate \/ BehRespond \/ BehRecord \/ BehThresholds

SpecBehavior == Init /\ [][BehNext]_vars

----------------------------------------------------------------------------
(* Claims about the behaviour profile (SpecBehavior)                       *)

Recorded == ret.op \in {"respond", "record"} /\ ret.status = "ok"
Patterns(u) == userProfiles[u].patterns
Total(u) == SumOver(Patterns(u), LAMBDA q : q.total)
Ignored(u) == SumOver(Patterns(u), LAMBDA q : q.ignored)
Accepted(u) == SumOver(Patterns(u), LAMBDA q : q.accepted)

\* C5: the sensitivity level of every user with a profile is 'medium' while
\* fewer than 5 responses are counted over all insight types, else 'low' if
\* more than 70% of them are ignored, else 'high' if more than 60% of them
\* are accepted, else 'medium'.
C5_SensitivityLevel ==
    \A u \in Users : userProfiles[u] # NoProfile =>
        userProfiles[u].sensitivityLevel =
            (IF Total(u) < 5 THEN "medium"
             ELSE IF 10 * Ignored(u) > 7 * Total(u) THEN "low"
             ELSE IF 10 * Accepted(u) > 6 * Total(u) THEN "high"
             ELSE "medium")

\* C5 witness: a response has just been recorded, the counts are spread over
\* two insight types, and exactly 3 of 5 responses are accepted: 60%, which
\* is not more than 60%.
C5_Witness ==
    /\ Recorded
    /\ Len(Patterns(GenUser)) = 2
    /\ Total(GenUser) = 5
    /\ Accepted(GenUser) = 3
    /\ userProfiles[GenUser].sensitivityLevel = "medium"

\* C6 as claimed: in every profile and for every insight type the counters
\* are non-negative and total = accepted + ignored + snoozed + dismissed.
C6_AsClaimed ==
    \A u \in Users : userProfiles[u] # NoProfile =>
        \A i \in 1..Len(Patterns(u)) :
            LET q == Patterns(u)[i]
            IN  /\ q.accepted >= 0 /\ q.ignored >= 0 /\ q.snoozed >= 0 /\ q.dismissed >= 0
                /\ q.total = q.accepted + q.ignored + q.snoozed + q.dismissed

\* the thresholds of a user are below the defaults
Lowered(thresholds) ==
    /\ thresholds.budgetOverrunThreshold < 100
    /\ thresholds.burnRiskThreshold < 5
    /\ thresholds.savingsGoalThreshold < 50
    /\ thresholds.responseTimeThreshold < 60

\* C7 as claimed: a user with at least 5 recorded responses, more than 60% of
\* them 'acted_on', has sensitivity 'high' and lowered thresholds.
C7_AsClaimed ==
    \A u \in Users :
        (/\ responseCount[u].total >= 5
         /\ 10 * responseCount[u].actedOn > 6 * responseCount[u].total) =>
            /\ userProfiles[u].sensitivityLevel = "high"
            /\ Lowered(getAdaptiveThresholds(u))

Thresholds(budgetOverrun, burnRisk, savingsGoal, responseTime) ==
    [budgetOverrunThreshold |-> budgetOverrun, burnRiskThreshold |-> burnRisk,
     savingsGoalThreshold |-> savingsGoal, responseTimeThreshold |-> responseTime]

\* C8: getAdaptiveThresholds returns 100, 5, 50, 60 for a user without a
\* profile or of medium sensitivity, 150, 8, 75, 90 for low sensitivity and
\* 70, 4, 35, 42 for high sensitivity; burnRiskThreshold is never below 3.
C8_AdaptiveThresholds ==
    ret.op = "thresholds" =>
        /\ ret.value =
              (IF userProfiles[ret.userId] = NoProfile THEN Thresholds(100, 5, 50, 60)
               ELSE CASE userProfiles[ret.userId].sensitivityLevel = "low" ->
                            Thresholds(150, 8, 75, 90)
                      [] userProfiles[ret.userId].sensitivityLevel = "high" ->
                            Thresholds(70, 4, 35, 42)
                      [] OTHER -> Thresholds(100, 5, 50, 60))
        /\ ret.value.burnRiskThreshold >= 3

\* C8 witness: the thresholds are read for a user of high sensitivity.
C8_Witness ==
    /\ ret.op = "thresholds"
    /\ userProfiles[ret.userId] # NoProfile
    /\ userProfiles[ret.userId].sensitivityLevel = "high"
    /\ ret.value.burnRiskThreshold = 4

----------------------------------------------------------------------------
(* SpecNotify: the notification service.  Sockets connect, authenticate    *)
(* for a user, disconnect, and notifications are sent to the users.        *)

NotifyInitialize ==
    /\ Initialize
    /\ UNCHANGED <<insightVars, budgets, salaries, behaviorVars, input, platformVars>>

NotifyConnect ==
    /\ \E s \in Sockets : Connect(s)
    /\ UNCHANGED <<insightVars, budgets, salaries, behaviorVars, input, platformVars>>

NotifyAuthenticate ==
    /\ \E s \in Sockets, u \in Users : Authenticate(s, u)
    /\ UNCHANGED <<insightVars, budgets, salaries, behaviorVars, input, platformVars>>

NotifyDisconnect ==
    /\ \E s \in Sockets : Disconnect(s)
    /\ UNCHANGED <<insightVars, budgets, salaries, behaviorVars, input, platformVars>>

NotifySend ==
    /\ \E u \in Users : SendNotification(u)
    /\ UNCHANGED <<insightVars, budgets, salaries, behaviorVars, input, platformVars>>

NotifyNext ==
    NotifyInitialize \/ NotifyConnect \/ NotifyAuthenticate \/ NotifyDisconnect \/ NotifySend

SpecNotify == Init /\ [][NotifyNext]_vars

\* C10 as claimed: a notification for a user is emitted to exactly one
\* socket, the one that last authenticated for the user, and to no socket
\* when the service is not initialized or no socket is registered for the
\* user.
C10_AsClaimed ==
    ret.op = "send" =>
        ret.value = (IF ~io \/ SocketOf(ret.userId) = NoSocket THEN {}
                     ELSE {lastAuth[ret.userId]})

\* C11 as claimed: every user isUserConnected reports is mapped to a socket
\* that is still connected, and getConnectedUsersCount counts exactly the
\* users with a connected socket.
C11_AsClaimed ==
    /\ \A u \in Users : isUserConnected(u) => socketState[SocketOf(u)] = "open"
    /\ getConnectedUsersCount =
          Cardinality({u \in Users : isUserConnected(u) /\ socketState[SocketOf(u)] = "open"})

----------------------------------------------------------------------------
(* GPT4Service: one prompt/response call to the external API with a canned *)
(* fallback.  A text is the tuple of its template and the values           *)
(* interpolated into it.                                                   *)

MaxCalls == 2         \* calls made to the external API

ChatMessages == {"How can I SAVE more?", "Saving tips please", "Where do I spend?",
                 "My EXPENSES", "save or spend", "Hello"}

\* String.prototype.toLowerCase on the chat messages in use
MessageToLowerCase(str) ==
    CASE str = "How can I SAVE more?" -> "how can i save more?"
      [] str = "Saving tips please" -> "saving tips please"
      [] str = "Where do I spend?" -> "where do i spend?"
      [] str = "My EXPENSES" -> "my expenses"
      [] OTHER -> str

\* String.prototype.includes on the lower-cased chat messages in use
Includes(message, sub) ==
    CASE sub = "save" -> message \in {"how can i save more?", "save or spend"}
      [] sub = "saving" -> message \in {"saving tips please"}
      [] sub = "spend" -> message \in {"where do i spend?", "save or spend"}
      [] sub = "expense" -> message \in {"my expenses"}
      [] OTHER -> FALSE

ChatContexts ==
    [userMessage : ChatMessages,
     userContext : [name : {"Asha"}, spendingPersonality : AnyPersona]]
Prompts == {"How do I budget?", "Tip of the day"}

\* what openai.chat.completions.create does: it throws, or it resolves to a
\* completion whose choices carry a message content (a text, possibly the
\* empty one) or none (null or undefined)
Thrown == [kind |-> "throws", choices |-> <<>>]
ApiText == <<"Great question! Here's one simple tip">>
EmptyText == <<>>
Choices == {[hasContent |-> TRUE, content |-> ApiText],
            [hasContent |-> TRUE, content |-> EmptyText],
            [hasContent |-> FALSE, content |-> EmptyText]}
Completions ==
    {Thrown, [kind |-> "completion", choices |-> <<>>]}
      \cup {[kind |-> "completion", choices |-> <<c>>] : c \in Choices}

\* completion.choices[0]?.message?.content is truthy
HasContent(completion) ==
    /\ Len(completion.choices) > 0
    /\ completion.choices[1].hasContent
    /\ completion.choices[1].content # EmptyText

getFallbackResponse(context) ==
    LET name == context.userContext.name
        spendingPersonality == context.userContext.spendingPersonality
        message == MessageToLowerCase(context.userMessage)
    IN  IF Includes(message, "save") \/ Includes(message, "saving")
        THEN <<"Quick Savings Tips", name, spendingPersonality>>
        ELSE IF Includes(message, "spend") \/ Includes(message, "expense")
        THEN <<"Your Spending Overview", name, spendingPersonality,
               IF spendingPersonality = "Heavy Spender"
               THEN "Consider setting daily spending limits."
               ELSE IF spendingPersonality = "Max Saver"
               THEN "Great job maintaining low spending!"
               ELSE "Your spending is well-balanced.">>
        ELSE <<"What I can do", name, spendingPersonality>>

PromptFallback == <<"I'm here to help with your financial questions!">>

\* completion.choices[0]?.message?.content returned as it is
generateResponseNoDefault(context, completion) ==
    IF ~llm.apiKey THEN [status |-> "ok", value |-> getFallbackResponse(context)]
    ELSE IF completion.kind = "throws"
    THEN [status |-> "ok", value |-> getFallbackResponse(context)]
    ELSE [status |-> "ok",
          value |-> IF Len(completion.choices) > 0
                    THEN completion.choices[1].content ELSE EmptyText]

\* `completion` is the outcome of the external call, made only past the
\* api-key test
generateResponse(context, completion) ==
    IF ~llm.apiKey THEN [status |-> "ok", value |-> getFallbackResponse(context)]
    ELSE IF completion.kind = "throws"
    THEN [status |-> "ok", value |-> getFallbackResponse(context)]
    ELSE [status |-> "ok",
          value |-> IF HasContent(completion)
                    THEN completion.choices[1].content
                    ELSE getFallbackResponse(context)]

generateResponseFromPrompt(prompt, completion) ==
    IF ~llm.apiKey THEN [status |-> "ok", value |-> PromptFallback]
    ELSE IF completion.kind = "throws"
    THEN [status |-> "ok", value |-> PromptFallback]
    ELSE [status |-> "ok",
          value |-> IF HasContent(completion)
                    THEN completion.choices[1].content
                    ELSE PromptFallback]

\* the external API is called exactly when a key is configured
CallApi(completion) ==
    IF llm.apiKey
    THEN /\ llm.calls < MaxCalls
         /\ completion \in Completions
         /\ llm' = [llm EXCEPT !.calls = @ + 1, !.outcome = completion]
    ELSE /\ completion = NoCompletion
         /\ UNCHANGED llm

LlmGenerateResponse ==
    \E context \in ChatContexts, completion \in Completions \cup {NoCompletion} :
        /\ CallApi(completion)
        /\ LET r == generateResponse(context, completion)
           IN  ret' = [op |-> "generateResponse", userId |-> "", arg |-> context,
                       status |-> r.status, value |-> r.value]
        /\ UNCHANGED <<insightVars, budgets, salaries, behaviorVars, input, socketVars, db, collectionVars, outbox>>

LlmGenerateResponseFromPrompt ==
    \E prompt \in Prompts, completion \in Completions \cup {NoCompletion} :
        /\ CallApi(completion)
        /\ LET r == generateResponseFromPrompt(prompt, completion)
           IN  ret' = [op |-> "generateResponseFromPrompt", userId |-> "", arg |-> prompt,
                       status |-> r.status, value |-> r.value]
        /\ UNCHANGED <<insightVars, budgets, salaries, behaviorVars, input, socketVars, db, collectionVars, outbox>>

\* process.env.OPENAI_API_KEY is set or not when the service is loaded
LlmSpecInit ==
    /\ InsightInit /\ DataInit /\ BehaviorInit /\ SocketInit /\ DbInit /\ CollectionInit /\ OutboxInit
    /\ input = NoInput
    /\ ret = InitRet
    /\ \E key \in BOOLEAN : llm = [apiKey |-> key, calls |-> 0, outcome |-> NoCompletion]

LlmNext == LlmGenerateResponse \/ LlmGenerateResponseFromPrompt

SpecLLM == LlmSpecInit /\ [][LlmNext]_vars

LlmOps == {"generateResponse", "generateResponseFromPrompt"}
\* the canned text of the call ret records
CannedFor(r) ==
    IF r.op = "generateResponse" THEN getFallbackResponse(r.arg) ELSE PromptFallback

\* C12: generateResponse and generateResponseFromPrompt never throw; with no
\* API key they return the canned fallback and the external API is never
\* called; with a key they return the canned fallback whenever the external
\* call throws or yields no message content.
C12_LlmNeverFails ==
    /\ ~llm.apiKey => llm.calls = 0
    /\ ret.op \in LlmOps =>
          /\ ret.status = "ok"
          /\ ~llm.apiKey => ret.value = CannedFor(ret)
          /\ (llm.apiKey /\ ~HasContent(llm.outcome)) => ret.value = CannedFor(ret)
          /\ (llm.apiKey /\ HasContent(llm.outcome)) => ret.value = ApiText

\* a call made with a key whose completion carries an empty content, and
\* the fallback returned for it
C12_Witness ==
    /\ ret.op = "generateResponse"
    /\ llm.apiKey
    /\ llm.outcome.kind = "completion"
    /\ Len(llm.outcome.choices) = 1
    /\ llm.outcome.choices[1].hasContent
    /\ llm.outcome.choices[1].content = EmptyText
    /\ ret.value = getFallbackResponse(ret.arg)
    /\ Includes(MessageToLowerCase(ret.arg.userMessage), "spend")

----------------------------------------------------------------------------
(* connectDB: the connection retry loop run once at startup, next to the   *)
(* notification service of the same process.                               *)

MAX_RETRIES == 3
NodeEnvs == {"production", "development", "test"}

\* the catch block with the process never exited
onConnectErrorNoExit(d) ==
    IF d.attempt = MAX_RETRIES
    THEN [d EXCEPT !.failed = @ + 1, !.pc = "returned"]
    ELSE [d EXCEPT !.failed = @ + 1, !.pc = "delay"]

\* the catch block of attempt d.attempt
onConnectError(d) ==
    IF d.attempt = MAX_RETRIES
    THEN IF d.nodeEnv = "production"
         THEN [d EXCEPT !.failed = @ + 1, !.pc = "exited", !.exitCode = 1]
         ELSE [d EXCEPT !.failed = @ + 1, !.pc = "returned"]
    ELSE [d EXCEPT !.failed = @ + 1, !.pc = "delay"]

\* the startup timer fires: connectDB enters its loop with attempt = 1
DbStart ==
    /\ db.pc = "timer"
    /\ db' = [db EXCEPT !.pc = "connecting", !.attempt = 1]
    /\ UNCHANGED <<insightVars, budgets, salaries, behaviorVars, input, ret, socketVars, llm, collectionVars, outbox>>

\* mongoose.connect resolves: return
DbConnected ==
    /\ db.pc = "connecting"
    /\ db' = [db EXCEPT !.pc = "returned", !.connected = TRUE]
    /\ UNCHANGED <<insightVars, budgets, salaries, behaviorVars, input, ret, socketVars, llm, collectionVars, outbox>>

\* mongoose.connect rejects
DbConnectFailed ==
    /\ db.pc = "connecting"
    /\ db' = onConnectError(db)
    /\ UNCHANGED <<insightVars, budgets, salaries, behaviorVars, input, ret, socketVars, llm, collectionVars, outbox>>

\* delay(RETRY_DELAY) resolves: attempt++ and the loop test
DbDelayElapsed ==
    /\ db.pc = "delay"
    /\ db' = [db EXCEPT !.delays = @ + 1, !.attempt = @ + 1,
                        !.pc = IF db.attempt + 1 <= MAX_RETRIES THEN "connecting"
                               ELSE "returned"]
    /\ UNCHANGED <<insightVars, budgets, salaries, behaviorVars, input, ret, socketVars, llm, collectionVars, outbox>>

DbStep == DbStart \/ DbConnected \/ DbConnectFailed \/ DbDelayElapsed

\* the notification service runs as long as the process does
ServerNotify == db.pc # "exited" /\ NotifyNext

ServerInit ==
    /\ InsightInit /\ DataInit /\ BehaviorInit /\ SocketInit /\ LlmInit /\ CollectionInit /\ OutboxInit
    /\ input = NoInput
    /\ ret = InitRet
    /\ \E nodeEnv \in NodeEnvs : db = NotStarted(nodeEnv)

ServerNext == DbStart \/ DbConnected \/ DbConnectFailed \/ DbDelayElapsed \/ ServerNotify

\* the timer fires, and mongoose.connect and the delay timer settle: the
\* event loop runs every ready callback, and connect gives up after
\* serverSelectionTimeoutMS
SpecServer == ServerInit /\ [][ServerNext]_vars /\ WF_vars(DbStep)

DbDone == db.pc \in {"returned", "exited"}

\* C13: connectDB terminates after at most MAX_RETRIES = 3 attempts; once
\* connected it makes no further attempt; it has waited once per failed
\* attempt that another attempt followed; after the third failure the process
\* exits with code 1 in production and connectDB returns normally otherwise.
C13_ConnectDBTerminates ==
    /\ <>DbDone
    /\ [](db.failed + (IF db.connected THEN 1 ELSE 0) <= 3)
    /\ [][db.connected => UNCHANGED db]_vars
    /\ [](db.connected => db.pc = "returned" /\ db.delays = db.failed)
    /\ [](db.pc = "connecting" => db.delays = db.failed /\ db.attempt = db.failed + 1)
    /\ [](db.pc = "delay" => db.delays = db.failed - 1 /\ db.failed < 3)
    /\ []((DbDone /\ ~db.connected) =>
             /\ db.failed = 3 /\ db.delays = 2
             /\ db.nodeEnv = "production" => db.pc = "exited" /\ db.exitCode = 1
             /\ db.nodeEnv # "production" => db.pc = "returned" /\ db.exitCode = 0)
    /\ [](db.pc = "exited" => db.nodeEnv = "production" /\ db.failed = 3)

\* three failed attempts in production, with the notification service in use
C13_Witness ==
    /\ db.pc = "exited" /\ db.exitCode = 1 /\ db.failed = 3 /\ db.delays = 2
    /\ userSockets # <<>>

----------------------------------------------------------------------------
(* TransactionService.getLatestTransactions: the persona rows of the       *)
(* current month, with rows synthesized for the days after the latest one. *)
(* A date string 'YYYY-MM-DD' is the day number within the current month:  *)
(* day 1 is the first of the month and day 0 the last day of the month     *)
(* before; the strings compare as the day numbers do.                      *)

MaxDay == 4           \* latest day of the month `today` may be
MaxRows == 2          \* rows of a persona data file
MaxRowLimit == 3      \* largest `limit` of getLatestTransactions

\* a PersonaTransaction: its date, and whether generateRandomTransaction made
\* it (then with its index within the day)
PersonaRow(date) == [date |-> date, synthesized |-> FALSE, index |-> 0]
PersonaFiles ==
    UNION {[1..n -> {PersonaRow(d) : d \in 0..(MaxDay + 1)}] : n \in 0..MaxRows}
\* Math.floor(Math.random() * 3) + 1, for each day of the loop
RandomCounts == [2..MaxDay -> 1..3]

RECURSIVE generateTransactionsForMissingDates(_, _, _, _)
\* the loop from `date` on: days up to startDate are skipped, every later day
\* up to endDate pushes numTransactions[date] rows
generateTransactionsForMissingDates(date, startDate, endDate, numTransactions) ==
    IF date > endDate THEN <<>>
    ELSE (IF date <= startDate THEN <<>>
          ELSE [i \in 1..numTransactions[date] |->
                   [date |-> date, synthesized |-> TRUE, index |-> i]])
         \o generateTransactionsForMissingDates(date + 1, startDate, endDate,
                                                numTransactions)

getLatestTransactions(personaData, today, limit, numTransactions) ==
    LET startDate == 1
        endDate == today
        inRange == SelectSeq(personaData,
                       LAMBDA tx : tx.date >= startDate /\ tx.date <= endDate)
        order == SortIndices(Len(inRange),
                     LAMBDA i, j : inRange[i].date > inRange[j].date, TRUE)
        validTransactions == [k \in 1..Len(inRange) |-> inRange[order[k]]]
        latestDateInData == IF Len(validTransactions) > 0
                            THEN validTransactions[1].date ELSE startDate
        withMissing ==
            IF endDate > latestDateInData
            THEN generateTransactionsForMissingDates(latestDateInData,
                     latestDateInData, endDate, numTransactions)
                 \o validTransactions
            ELSE validTransactions
    IN  Slice(withMissing, 0, limit)

TxInit ==
    /\ InsightInit /\ DataInit /\ BehaviorInit /\ SocketInit /\ PlatformInit
    /\ ret = InitRet
    /\ \E personaData \in PersonaFiles, today \in 1..MaxDay, limit \in 1..MaxRowLimit,
          numTransactions \in RandomCounts :
          input = [transactions |-> personaData, today |-> today, limit |-> limit,
                   numTransactions |-> numTransactions]

TxGetLatest ==
    /\ ret.op = "init"
    /\ ret' = [op |-> "getLatestTransactions", userId |-> "", arg |-> input.limit,
               status |-> "ok",
               value |-> getLatestTransactions(input.transactions, input.today,
                                               input.limit, input.numTransactions)]
    /\ UNCHANGED <<insightVars, budgets, salaries, behaviorVars, input, socketVars, platformVars>>

TxNext == TxGetLatest

SpecTx == TxInit /\ [][TxNext]_vars

\* C14 as claimed: getLatestTransactions returns at most `limit` rows, all
\* dated from the first of the month to today, the most recent first, also
\* when rows were synthesized for the missing days.
C14_AsClaimed ==
    ret.op = "getLatestTransactions" =>
        /\ Len(ret.value) <= input.limit
        /\ \A i \in 1..Len(ret.value) :
              ret.value[i].date >= 1 /\ ret.value[i].date <= input.today
        /\ \A i, j \in 1..Len(ret.value) :
              i < j => ret.value[i].date >= ret.value[j].date

----------------------------------------------------------------------------
(* The budget routes: GET /:userId, PUT /:userId/:category and             *)
(* DELETE /:userId.                                                        *)

MaxPuts == 1          \* insight regenerations in the budget specification

BudgetCategories == {"Groceries", "Pets"}
\* req.body: budgetCap is absent, or a number
BudgetBodies ==
    {[has |-> FALSE, budgetCap |-> 0]}
      \cup {[has |-> TRUE, budgetCap |-> c] : c \in {0, 0 - 500, 8000, 20000}}

\* Transaction.find({userId}).sort({date: -1}).limit(limit) on the
\* collection `stored`
FindTransactionsIn(stored, userId, limit) ==
    LET docs == SelectSeq(stored, LAMBDA t : t.userId = userId)
        order == SortIndices(Len(docs), LAMBDA i, j : docs[i].date > docs[j].date, TRUE)
    IN  Slice([k \in 1..Len(docs) |-> docs[order[k]]], 0, limit)

FindTransactions(userId, limit) == FindTransactionsIn(transactions, userId, limit)

\* the documents as the TransactionData generateInsightsForUser reads
ToTransactionData(docs) ==
    [i \in 1..Len(docs) |->
        [id |-> docs[i].id, amount |-> docs[i].amount, category |-> docs[i].category,
         merchant |-> docs[i].merchant, date |-> docs[i].date]]

\* the test with a zero cap let through
invalidBudgetCapNegativeOnly(body) == body.has /\ body.budgetCap < 0

\* !budgetCap || budgetCap < 0
invalidBudgetCap(body) == ~body.has \/ body.budgetCap = 0 \/ body.budgetCap < 0

\* the budgetCaps object GET /:userId answers with
getBudgetCaps(userId) ==
    MergeCaps(budgetData(users[userId].spendingPersonality), budgets[userId])

Response(op, userId, arg, status, value) ==
    [op |-> op, userId |-> userId, arg |-> arg, status |-> status, value |-> value]

\* no request is being handled
Idle == ret.status # "pending"

BudgetGet ==
    /\ Idle
    /\ \E u \in Users :
          ret' = IF ~users[u].exists
                 THEN Response("getBudget", u, <<>>, "404", <<>>)
                 ELSE Response("getBudget", u, <<>>, "200", getBudgetCaps(u))
    /\ UNCHANGED <<insightVars, budgets, salaries, behaviorVars, input, socketVars, platformVars>>

\* PUT up to Budget.findOneAndUpdate with upsert: the handler goes on with
\* BudgetPutRegenerate before it answers
BudgetPut ==
    /\ Idle
    /\ \E u \in Users, category \in BudgetCategories, body \in BudgetBodies :
         LET arg == [category |-> category, body |-> body]
         IN  IF invalidBudgetCap(body)
             THEN /\ ret' = Response("putBudget", u, arg, "400", <<>>)
                  /\ UNCHANGED budgets
             ELSE IF ~users[u].exists
             THEN /\ ret' = Response("putBudget", u, arg, "404", <<>>)
                  /\ UNCHANGED budgets
             ELSE /\ budgets' = [budgets EXCEPT ![u] =
                                    SetCap(@, [category |-> category,
                                               budgetCap |-> body.budgetCap])]
                  /\ ret' = Response("putBudget", u, arg, "pending",
                                     [category |-> category, budgetCap |-> body.budgetCap])
    /\ UNCHANGED <<insightVars, salaries, behaviorVars, input, socketVars, platformVars>>

\* the userProfile PUT /:userId/:category regenerates with
BudgetRouteProfile(u) ==
    [userId |-> u,
     spendingPersonality |-> users[u].spendingPersonality,
     salary |-> IF users[u].salary = NoSalary THEN 200000 ELSE users[u].salary]

\* the rest of PUT: the insights are regenerated from the user's stored
\* transactions with the caps as they are now; an error of the regeneration
\* is logged, and the answer is the stored document either way
BudgetPutRegenerate ==
    /\ ret.op = "putBudget" /\ ret.status = "pending"
    /\ LET u == ret.userId
           profile == BudgetRouteProfile(u)
           recentTransactions == ToTransactionData(FindTransactions(u, 100))
       IN  \/ /\ clock <= MaxPuts
              /\ \E random \in RandomFor(recentTransactions),
                    likelyActive \in ActiveFor(u) :
                    \E generated \in {GeneratedInsights(u, recentTransactions,
                                          profile, random, likelyActive)} :
                        /\ aiInsights' = aiInsights \o generated
                        /\ nextId' = nextId + Len(generated)
                        /\ clock' = clock + 1
           \/ UNCHANGED insightVars
    /\ ret' = [ret EXCEPT !.status = "200"]
    /\ UNCHANGED <<budgets, salaries, behaviorVars, input, socketVars, platformVars>>

BudgetDelete ==
    /\ Idle
    /\ \E u \in Users :
          /\ budgets' = [budgets EXCEPT ![u] = <<>>]
          /\ ret' = Response("deleteBudget", u, <<>>, "200", <<>>)
    /\ UNCHANGED <<insightVars, salaries, behaviorVars, input, socketVars, platformVars>>

\* 'u1' is registered, with one of the personalities and with or without a
\* salary; 'u2' is not
BudgetInit ==
    /\ InsightInit /\ DataInit /\ BehaviorInit /\ SocketInit /\ LlmInit /\ DbInit
    /\ OutboxInit /\ nudges = <<>>
    /\ input = NoInput
    /\ ret = InitRet
    /\ transactions = <<>>
    /\ \E persona \in Personas, salary \in {NoSalary, 100000} :
          users = [u \in Users |->
                     IF u = "u1"
                     THEN [exists |-> TRUE, spendingPersonality |-> persona,
                           salary |-> salary]
                     ELSE NoUser]

BudgetNext == BudgetGet \/ BudgetPut \/ BudgetPutRegenerate \/ BudgetDelete

SpecBudget == BudgetInit /\ [][BudgetNext]_vars

\* the cap an object of caps holds for a category, 0 when it has none
CapIn(caps, category) ==
    IF \E i \in 1..Len(caps) : caps[i].category = category
    THEN (CHOOSE e \in {caps[i] : i \in 1..Len(caps)} : e.category = category).budgetCap
    ELSE 0
AllCategories ==
    BudgetCategories \cup {budgetData(p)[i].category : p \in Personas, i \in 1..5}
\* the step is the handling of a request `op` that reaches `status`
Handled(op, status) ==
    /\ ret'.op = op /\ ret'.status = status
    /\ <<ret, budgets>>' # <<ret, budgets>>

\* C15: GET answers, for each category, the stored custom cap or else the
\* persona default; a PUT that passes the checks stores the new cap for the
\* category, leaves every other category as before and is answered 200 with
\* the caps as stored, so that a GET has them; after DELETE a GET has
\* exactly the persona defaults; a PUT with a missing, zero or negative cap is
\* answered 400 and changes nothing.
C15_BudgetRoundTrip ==
    /\ [](ret.op = "getBudget" /\ ret.status = "200" =>
            \A c \in AllCategories :
               CapIn(ret.value, c) =
                  IF CapIn(budgets[ret.userId], c) # 0
                  THEN CapIn(budgets[ret.userId], c)
                  ELSE CapIn(budgetData(users[ret.userId].spendingPersonality), c))
    /\ [][\A u \in Users : Handled("putBudget", "pending") /\ ret'.userId = u =>
            \A c \in AllCategories :
               CapIn(getBudgetCaps(u)', c) =
                  IF c = ret'.arg.category THEN ret'.arg.body.budgetCap
                  ELSE CapIn(getBudgetCaps(u), c)]_vars
    /\ [][Handled("putBudget", "200") =>
            ret.status = "pending" /\ UNCHANGED <<budgets, users>>]_vars
    /\ [](ret.op = "putBudget" => ret.status \in {"pending", "200", "400", "404"})
    /\ [](ret.op = "putBudget" /\ ret.status = "200" =>
            CapIn(getBudgetCaps(ret.userId), ret.arg.category) = ret.arg.body.budgetCap)
    /\ [][\A u \in Users : Handled("deleteBudget", "200") /\ ret'.userId = u =>
            getBudgetCaps(u)' = budgetData(users[u].spendingPersonality)]_vars
    /\ [][ret'.op = "putBudget" /\ ret' # ret =>
            /\ (~ret'.arg.body.has \/ ret'.arg.body.budgetCap <= 0) <=> ret'.status = "400"
            /\ ret'.status = "400" => UNCHANGED <<budgets, insightVars, users>>]_vars

\* a custom cap replaced by a PUT while another custom cap is stored
C15_Witness ==
    /\ ret.op = "putBudget" /\ ret.status = "200" /\ ret.userId = "u1"
    /\ ret.arg.category = "Groceries" /\ ret.arg.body.budgetCap = 20000
    /\ Len(budgets["u1"]) = 2
    /\ budgets["u1"][1] = [category |-> "Groceries", budgetCap |-> 20000]
    /\ aiInsights # <<>>

----------------------------------------------------------------------------
(* The salary routes: GET, PUT and DELETE /:userId.  Date.now() advances   *)
(* between two requests: a record's createdAt is the clock at its save.    *)

MaxSalaryPuts == 3    \* salary records saved in the salary specification

\* req.body.salary: absent, a string, or a number
SalaryBodies ==
    {[type |-> "undefined", salary |-> 0], [type |-> "string", salary |-> 150000]}
      \cup {[type |-> "number", salary |-> n] : n \in {0, 50000, 100000, 150000}}

\* !salary || typeof salary !== 'number' || salary < 100000 (a non-empty
\* string is truthy)
invalidSalary(body) ==
    \/ body.type = "undefined"
    \/ body.type = "number" /\ body.salary = 0
    \/ body.type # "number"
    \/ body.salary < 100000

\* the salary GET /:userId answers with
getSalary(userId) ==
    LET salaryRecord == findLatestSalary(userId)
    IN  IF salaryRecord.salary # NoSalary THEN salaryRecord.salary ELSE 100000

SalaryGet ==
    /\ \E u \in Users : ret' = Response("getSalary", u, <<>>, "200", getSalary(u))
    /\ UNCHANGED <<insightVars, budgets, salaries, behaviorVars, input, socketVars, platformVars>>

SalaryPut ==
    /\ \E u \in Users, body \in SalaryBodies :
          IF invalidSalary(body)
          THEN /\ ret' = Response("putSalary", u, body, "400", <<>>)
               /\ UNCHANGED <<salaries, clock>>
          ELSE /\ clock <= MaxSalaryPuts
               /\ salaries' = [salaries EXCEPT ![u] =
                                  Append(@, [salary |-> body.salary, createdAt |-> clock])]
               /\ clock' = clock + 1
               /\ ret' = Response("putSalary", u, body, "200", body.salary)
    /\ UNCHANGED <<aiInsights, nextId, budgets, behaviorVars, input, socketVars, platformVars>>

SalaryDelete ==
    /\ \E u \in Users :
          /\ salaries' = [salaries EXCEPT ![u] = <<>>]
          /\ ret' = Response("deleteSalary", u, <<>>, "200", Len(salaries[u]))
    /\ UNCHANGED <<insightVars, budgets, behaviorVars, input, socketVars, platformVars>>

SalaryNext == SalaryGet \/ SalaryPut \/ SalaryDelete

SpecSalary == Init /\ [][SalaryNext]_vars

SalaryRecords(u) == {salaries[u][i] : i \in 1..Len(salaries[u])}

\* C16: GET answers the salary of the user's most recently created record,
\* or 100000 without one; after a PUT of a number >= 100000 a GET answers
\* that number; a PUT of anything else is answered 400 and stores nothing, so
\* every stored salary is >= 100000; after DELETE a GET answers 100000.
C16_SalaryRoundTrip ==
    /\ [](ret.op = "getSalary" =>
            /\ ret.status = "200"
            /\ IF salaries[ret.userId] = <<>> THEN ret.value = 100000
               ELSE \E r \in SalaryRecords(ret.userId) :
                       /\ r.salary = ret.value
                       /\ \A o \in SalaryRecords(ret.userId) : o.createdAt <= r.createdAt)
    /\ [][\A u \in Users : ret'.op = "putSalary" /\ ret'.userId = u /\ ret' # ret =>
            IF ret'.arg.type = "number" /\ ret'.arg.salary >= 100000
            THEN ret'.status = "200" /\ getSalary(u)' = ret'.arg.salary
            ELSE ret'.status = "400" /\ UNCHANGED salaries]_vars
    /\ [](\A u \in Users : \A r \in SalaryRecords(u) : r.salary >= 100000)
    /\ [][\A u \in Users : ret'.op = "deleteSalary" /\ ret'.userId = u /\ ret' # ret =>
            getSalary(u)' = 100000]_vars

\* a GET answered with the later and smaller of two salaries of the user
C16_Witness ==
    /\ ret.op = "getSalary" /\ ret.userId = "u1" /\ ret.value = 100000
    /\ Len(salaries["u1"]) = 2
    /\ salaries["u1"][1].salary = 150000

----------------------------------------------------------------------------
(* POST /api/transactions/:userId                                          *)

MaxPosts == 2         \* transactions saved in the transaction specification

RequiredFields == {"date", "merchant", "amount", "category", "paymentMode"}
PaymentModes == {"UPI", "Card", "NetBanking", "Cash"}
\* req.body: the required fields it has, and the values of those the schema
\* validates
PostBodies ==
    [present : {RequiredFields} \cup {RequiredFields \ {f} : f \in RequiredFields},
     date : {Now - 15, Now - 16},
     amount : {0, 250, 0 - 5},
     paymentMode : {"UPI", "Wallet"}]

\* !date || !merchant || !amount || !category || !paymentMode
missingField(body) == body.present # RequiredFields \/ body.amount = 0

\* transaction.save() rejects: amount has min 0, paymentMode an enum
failsValidation(body) == body.amount < 0 \/ body.paymentMode \notin PaymentModes

NewTransaction(userId, body) ==
    [id |-> Len(transactions) + 1, userId |-> userId, date |-> body.date,
     merchant |-> "Mart", amount |-> body.amount, category |-> "Groceries",
     paymentMode |-> body.paymentMode, isSimulated |-> FALSE]

\* the userProfile POST /:userId generates with
TransactionRouteProfile(u) ==
    [userId |-> u,
     spendingPersonality |-> users[u].spendingPersonality,
     salary |-> 100000]

\* monitorTransaction catches its own errors and only emits; the insight
\* block loads the user and generates from the 50 latest transactions, the
\* new one among them, and its errors are caught
PostTransaction ==
    /\ \E u \in Users, body \in PostBodies, insightError \in BOOLEAN :
         LET transaction == NewTransaction(u, body)
             stored == Append(transactions, transaction)
             userProfile == TransactionRouteProfile(u)
             allTransactionData == ToTransactionData(FindTransactionsIn(stored, u, 50))
         IN  IF missingField(body)
             THEN /\ ~insightError
                  /\ ret' = Response("postTransaction", u, body, "400", <<>>)
                  /\ UNCHANGED <<transactions, insightVars>>
             ELSE IF failsValidation(body)
             THEN /\ ~insightError
                  /\ ret' = Response("postTransaction", u, body, "500", <<>>)
                  /\ UNCHANGED <<transactions, insightVars>>
             ELSE /\ Len(transactions) < MaxPosts
                  /\ transactions' = stored
                  /\ ret' = Response("postTransaction", u, body, "201", transaction)
                  /\ IF insightError \/ ~users[u].exists
                     THEN UNCHANGED insightVars
                     ELSE \E random \in RandomFor(allTransactionData),
                             likelyActive \in ActiveFor(u) :
                             \E generated \in {GeneratedInsights(u, allTransactionData,
                                                   userProfile, random, likelyActive)} :
                                 /\ aiInsights' = aiInsights \o generated
                                 /\ nextId' = nextId + Len(generated)
                                 /\ clock' = clock + 1
    /\ UNCHANGED <<budgets, salaries, behaviorVars, input, socketVars, llm, db, users,
                   nudges, outbox>>

\* 'u1' is registered, 'u2' is not
PostInit ==
    /\ InsightInit /\ DataInit /\ BehaviorInit /\ SocketInit /\ LlmInit /\ DbInit
    /\ OutboxInit /\ nudges = <<>>
    /\ input = NoInput
    /\ ret = InitRet
    /\ transactions = <<>>
    /\ \E persona \in Personas :
          users = [u \in Users |->
                     IF u = "u1"
                     THEN [exists |-> TRUE, spendingPersonality |-> persona,
                           salary |-> NoSalary]
                     ELSE NoUser]

PostNext == PostTransaction

SpecPost == PostInit /\ [][PostNext]_vars

\* C17 as claimed: a POST with all required fields present stores the
\* transaction with isSimulated = false and is answered 201, whether or not
\* the insight block throws; a POST with a required field missing is
\* answered 400 and stores nothing.
C17_AsClaimed ==
    [][ret'.op = "postTransaction" /\ <<ret, transactions>>' # <<ret, transactions>> =>
          IF ret'.arg.present = RequiredFields
          THEN /\ ret'.status = "201"
               /\ Len(transactions') = Len(transactions) + 1
               /\ transactions'[Len(transactions')] = ret'.value
               /\ ~ret'.value.isSimulated
          ELSE /\ ret'.status = "400"
               /\ UNCHANGED transactions]_vars

----------------------------------------------------------------------------
(* sendNotification for a user without a registered socket: the log line   *)
(* 'not connected, notification queued'.  Every notification handed to     *)
(* sendNotification gets a number, and the history records where it went.  *)

MaxNotifications == 2 \* notifications handed to sendNotification

\* sendNotification(userId, notification number outbox.next)
QueueSend ==
    /\ outbox.next <= MaxNotifications
    /\ \E u \in Users :
          /\ SendNotification(u)
          /\ outbox' =
               [next |-> outbox.next + 1,
                queued |-> IF SendStatus(u, io, userSockets) = "not connected"
                           THEN [outbox.queued EXCEPT ![u] = @ \cup {outbox.next}]
                           ELSE outbox.queued,
                emitted |-> IF Recipients(u, io, userSockets, socketState) # {}
                            THEN [outbox.emitted EXCEPT ![u] = @ \cup {outbox.next}]
                            ELSE outbox.emitted]
    /\ UNCHANGED <<insightVars, budgets, salaries, behaviorVars, input, llm, db,
                   collectionVars>>

QueueNext ==
    NotifyInitialize \/ NotifyConnect \/ NotifyAuthenticate \/ NotifyDisconnect \/ QueueSend

\* the event loop runs the handler of every event that has arrived
SpecQueue == Init /\ [][QueueNext]_vars /\ WF_vars(QueueNext)

\* C18 as claimed: a notification sent to a user who is not connected is
\* queued: once the user has authenticated, it is eventually emitted to the
\* user's socket.
C18_AsClaimed ==
    \A u \in Users : \A n \in 1..MaxNotifications :
        (n \in outbox.queued[u] /\ isUserConnected(u) /\ socketState[SocketOf(u)] = "open")
            ~> (n \in outbox.emitted[u])

----------------------------------------------------------------------------
(* PredictiveAnalyticsService.generatePredictiveInsights on transactions   *)
(* of categories the forecast table has caps for.                          *)

ForecastPool == {
    [id |-> "f1", amount |-> 9000, category |-> "Shopping",
     merchant |-> "Mart", date |-> Now - 3],
    [id |-> "f2", amount |-> 4000, category |-> "shopping",
     merchant |-> "Mart", date |-> Now - 2],
    [id |-> "f3", amount |-> 3000, category |-> "Transport",
     merchant |-> "Cafe", date |-> Now - 1],
    [id |-> "f4", amount |-> 6000, category |-> "Groceries",
     merchant |-> "Mart", date |-> Now - 4] }

ForecastInit ==
    /\ InsightInit /\ DataInit /\ BehaviorInit /\ SocketInit /\ PlatformInit
    /\ ret = InitRet
    /\ \E txs \in UNION {[1..n -> ForecastPool] : n \in 0..MaxTx}, persona \in AnyPersona :
          input = [userId |-> GenUser, transactions |-> txs,
                   userProfile |-> [userId |-> GenUser, spendingPersonality |-> persona,
                                    salary |-> 100000]]

ForecastPredict ==
    /\ ret.op = "init"
    /\ ret' = Response("generatePredictiveInsights", input.userId, <<>>, "ok",
                       predictions(input.transactions,
                                   input.userProfile.spendingPersonality, input.userId))
    /\ UNCHANGED <<insightVars, budgets, salaries, behaviorVars, input, socketVars, platformVars>>

ForecastNext == ForecastPredict

SpecForecast == ForecastInit /\ [][ForecastNext]_vars

\* the keys of the cap table of forecastBudgetOverrun
CapKeys == {"Dining", "Shopping", "Entertainment", "Transport", "Healthcare", "Education"}
\* the cap the table defines for a category of categoryTrends, 5000 when it
\* defines none
DefinedCap(persona, lower) ==
    IF \E k \in CapKeys : ToLowerCase(k) = lower
    THEN ForecastCap(persona, CHOOSE k \in CapKeys : ToLowerCase(k) = lower)
    ELSE 5000
\* thirty times the predicted month total of a category
Predicted30(txs, lower) ==
    30 * TotalAmount(SelectSeq(txs, LAMBDA t : ToLowerCase(t.category) = lower /\ t.date >= 1))
      + TrendTotal(txs, lower) * (DaysInMonth - Now)

\* C19 as claimed: a budget_forecast is made for a top-3 category exactly
\* when its predicted month total exceeds the cap defined for the category
\* and the personality, 5000 only when none is defined, and reports the
\* excess over that cap.
C19_AsClaimed ==
    ret.op = "generatePredictiveInsights" =>
        LET txs == input.transactions
            persona == input.userProfile.spendingPersonality
            top == TopCategories(txs, TrendKeys(txs), 3)
            Forecasts(c) == {i \in 1..Len(ret.value) :
                               /\ ret.value[i].type = "budget_forecast"
                               /\ ret.value[i].message[2] = c}
        IN  \A k \in 1..Len(top) :
               LET excess == Predicted30(txs, top[k]) - 30 * DefinedCap(persona, top[k])
               IN  /\ Forecasts(top[k]) # {} <=> excess > 0
                   /\ \A i \in Forecasts(top[k]) :
                         ret.value[i].message[3] = RoundDiv(excess, 30)

----------------------------------------------------------------------------
(* POST /:userId/generate: the transaction list handed to                  *)
(* generateInsightsForUser, and the relatedTransactions it yields.         *)

MaxListed == 6        \* persona and manual transactions of the user

RowIds == <<"r1", "r2", "r3", "r4", "r5", "r6", "r7">>
\* the user's transaction number i, dated i days ago
ListedTransaction(i) ==
    [id |-> RowIds[i], amount |-> 250, category |-> "Groceries", merchant |-> "Mart",
     date |-> Now - i]
\* req.body.transactionData, dated today, with an id or without
TransactionDataChoices ==
    {[given |-> FALSE, id |-> ""], [given |-> TRUE, id |-> ""], [given |-> TRUE, id |-> "n1"]}

\* transactionDataList: all transactions sorted newest first, and the new
\* transaction put in front
transactionDataList(allTransactions, transactionData) ==
    LET order == SortIndices(Len(allTransactions),
                     LAMBDA i, j : allTransactions[i].date > allTransactions[j].date, TRUE)
        sortedTransactions == [k \in 1..Len(allTransactions) |-> allTransactions[order[k]]]
    IN  IF transactionData.given
        THEN <<[id |-> IF transactionData.id = "" THEN "new_transaction"
                       ELSE transactionData.id,
                amount |-> 250, category |-> "Groceries", merchant |-> "Mart",
                date |-> Now]>> \o sortedTransactions
        ELSE sortedTransactions

RelatedInit ==
    /\ InsightInit /\ DataInit /\ BehaviorInit /\ SocketInit /\ LlmInit /\ DbInit
    /\ OutboxInit /\ nudges = <<>>
    /\ ret = InitRet
    /\ transactions = <<>>
    /\ \E persona \in Personas :
          users = [u \in Users |->
                     IF u = GenUser
                     THEN [exists |-> TRUE, spendingPersonality |-> persona,
                           salary |-> NoSalary]
                     ELSE NoUser]
    /\ \E n \in 0..MaxListed, newestFirst \in BOOLEAN,
          transactionData \in TransactionDataChoices :
          input = [userId |-> GenUser,
                   transactions |-> [i \in 1..n |->
                       ListedTransaction(IF newestFirst THEN i ELSE n + 1 - i)],
                   transactionData |-> transactionData]

\* Salary.findOne({ userId }) without a sort answers the first record of
\* the user in the collection
GenerateRouteProfile(u) ==
    [userId |-> u,
     spendingPersonality |-> users[u].spendingPersonality,
     salary |-> IF salaries[u] = <<>> THEN 100000 ELSE salaries[u][1].salary]

RelatedGenerate ==
    /\ ret.op = "init"
    /\ LET u == input.userId
           userProfile == GenerateRouteProfile(u)
           list == transactionDataList(input.transactions, input.transactionData)
       IN  \E random \in RandomFor(list), likelyActive \in ActiveFor(u) :
              generateInsightsForUser(u, list, userProfile, random, likelyActive)
    /\ UNCHANGED <<budgets, salaries, behaviorVars, input, socketVars, platformVars>>

RelatedNext == RelatedGenerate

SpecRelated == RelatedInit /\ [][RelatedNext]_vars

\* the ids of the (at most) five transactions of a list with the latest dates
MostRecentFive(list) ==
    {list[i].id : i \in {i \in 1..Len(list) :
        Cardinality({j \in 1..Len(list) : list[j].date > list[i].date}) < 5}}

\* C20 as claimed: the relatedTransactions of every template-derived insight
\* are the ids of the five most recent transactions of the list it was
\* generated from, the new transaction of POST /:userId/generate among them.
C20_AsClaimed ==
    (Generated /\ ret.value # <<>>) =>
        \A i \in 1..Len(ret.value) :
            ret.value[i].templateType \in TemplateTypes =>
                LET related == {ret.value[i].relatedTransactions[k] :
                                   k \in 1..Len(ret.value[i].relatedTransactions)}
                IN  /\ related = MostRecentFive(ret.arg.transactions)
                    /\ input.transactionData.given =>
                          ret.arg.transactions[1].id \in related

----------------------------------------------------------------------------
(* NudgeService.generateNudges: the overspending nudge.                    *)

MaxNudgeTx == 8

\* Transaction.find({ userId }).sort({ date: -1 }).limit(7)
RecentLimit == 7

\* the transactions of the user in the collection: two amounts dated today,
\* one dated yesterday
NudgePool == {
    [amount |-> 300, date |-> Now],
    [amount |-> 400, date |-> Now],
    [amount |-> 500, date |-> Now - 1] }

NudgeDoc(userId, i, row) ==
    [id |-> i, userId |-> userId, amount |-> row.amount, category |-> "Shopping",
     merchant |-> "Mart", date |-> row.date, paymentMode |-> "UPI",
     isSimulated |-> FALSE]

\* limits[user?.spendingPersonality || 'Medium Spender']
DailyLimit(user) ==
    LET personality == IF user.exists THEN user.spendingPersonality
                       ELSE "Medium Spender"
    IN  CASE personality = "Heavy Spender" -> 2000
          [] personality = "Medium Spender" -> 1500
          [] personality = "Max Saver" -> 800

\* today.setHours(0, 0, 0, 0); txnDate >= today
TodayTransactions(recentTransactions) ==
    SelectSeq(recentTransactions, LAMBDA txn : txn.date >= Now)

checkDailySpendingLimit(userId, recentTransactions) ==
    LET dailyTotal == SumSeq(Amounts(TodayTransactions(recentTransactions)))
        limit == DailyLimit(users[userId])
    IN  IF 2 * dailyTotal > 3 * limit
        THEN [shouldNudge |-> TRUE, severity |-> "high",
              dailyTotal |-> dailyTotal, limit |-> limit]
        ELSE IF dailyTotal > limit
        THEN [shouldNudge |-> TRUE, severity |-> "medium",
              dailyTotal |-> dailyTotal, limit |-> limit]
        ELSE [shouldNudge |-> FALSE, severity |-> "low",
              dailyTotal |-> dailyTotal, limit |-> limit]

\* the nudges of type 'overspending' in the result of generateNudges
OverspendingNudges(userId) ==
    LET dailySpending == checkDailySpendingLimit(userId, FindTransactions(userId, RecentLimit))
    IN  IF dailySpending.shouldNudge
        THEN <<[type |-> "overspending", severity |-> dailySpending.severity,
                actionRequired |-> TRUE, dailyTotal |-> dailySpending.dailyTotal,
                limit |-> dailySpending.limit]>>
        ELSE <<>>

NudgeInit ==
    /\ InsightInit /\ DataInit /\ BehaviorInit /\ SocketInit /\ LlmInit /\ DbInit
    /\ OutboxInit /\ nudges = <<>>
    /\ input = NoInput
    /\ ret = InitRet
    /\ \E rows \in UNION {[1..n -> NudgePool] : n \in 0..MaxNudgeTx} :
          transactions = [i \in 1..Len(rows) |-> NudgeDoc(GenUser, i, rows[i])]
    /\ \E user \in {NoUser} \cup
                   {[exists |-> TRUE, spendingPersonality |-> p, salary |-> NoSalary] :
                      p \in Personas} :
          users = [u \in Users |-> IF u = GenUser THEN user ELSE NoUser]

NudgeGenerate ==
    /\ ret.op = "init"
    /\ ret' = Response("generateNudges", GenUser, <<>>, "ok", OverspendingNudges(GenUser))
    /\ UNCHANGED <<insightVars, budgets, salaries, behaviorVars, input, socketVars,
                   platformVars>>

NudgeNext == NudgeGenerate

SpecNudge == NudgeInit /\ [][NudgeNext]_vars

\* the sum of the amounts of all of the user's transactions dated today
TodayTotal(userId) ==
    SumSeq(Amounts(SelectSeq(transactions,
                             LAMBDA t : t.userId = userId /\ t.date >= Now)))

\* C21 as claimed: the daily total of the overspending nudge is the sum of all
\* of the user's transactions dated today, however many there are; the nudge
\* is 'high' iff the total exceeds 1.5 times the daily limit of the
\* personality, 'medium' iff it exceeds the limit but not 1.5 times the limit,
\* and there is no overspending nudge otherwise.
C21_AsClaimed ==
    ret.op = "generateNudges" =>
        LET total == TodayTotal(ret.userId)
            limit == DailyLimit(users[ret.userId])
            triggers == ret.value
        IN  /\ Len(triggers) <= 1
            /\ (Len(triggers) = 1 /\ triggers[1].severity = "high") <=> 2 * total > 3 * limit
            /\ (Len(triggers) = 1 /\ triggers[1].severity = "medium")
                  <=> (total > limit /\ 2 * total <= 3 * limit)
            /\ Len(triggers) = 1 => triggers[1].dailyTotal = total

----------------------------------------------------------------------------
(* The three paths into generateInsightsForUser, for a user with salary    *)
(* records and with or without a salary on the User document.              *)

\* the salary records of the user before the requests: none, one, or two
\* saved one after the other
SalaryHistories ==
    {<<>>,
     <<[salary |-> 150000, createdAt |-> 0 - 1]>>,
     <<[salary |-> 150000, createdAt |-> 0 - 1], [salary |-> 300000, createdAt |-> 0]>>}

PathsInit ==
    /\ InsightInit /\ BehaviorInit /\ SocketInit /\ LlmInit /\ DbInit /\ OutboxInit /\ nudges = <<>>
    /\ ret = InitRet
    /\ transactions = <<>>
    /\ budgets = [u \in Users |-> <<>>]
    /\ \E history \in SalaryHistories :
          salaries = [u \in Users |-> IF u = GenUser THEN history ELSE <<>>]
    /\ \E persona \in Personas, salary \in {NoSalary, 120000} :
          users = [u \in Users |->
                     IF u = GenUser
                     THEN [exists |-> TRUE, spendingPersonality |-> persona,
                           salary |-> salary]
                     ELSE NoUser]
    /\ \E n \in 0..1 :
          input = [userId |-> GenUser,
                   transactions |-> [i \in 1..n |-> ListedTransaction(i)],
                   transactionData |-> [given |-> FALSE, id |-> ""]]

\* one request of one of the three routes
PathsNext ==
    \/ RelatedGenerate
    \/ ret.op = "init" /\ PostTransaction
    \/ ret.op = "init" /\ BudgetPut
    \/ BudgetPutRegenerate

SpecPaths == PathsInit /\ [][PathsNext]_vars

\* C22 as claimed: each path that generates insights for a user does so with
\* the salary GET /:userId answers for that user: the salary of the most
\* recently saved record, 100000 when there is none.
C22_AsClaimed ==
    /\ Generated => ret.arg.userProfile.salary = getSalary(ret.userId)
    /\ (ret.op = "postTransaction" /\ ret.status = "201" /\ users[ret.userId].exists)
          => TransactionRouteProfile(ret.userId).salary = getSalary(ret.userId)
    /\ (ret.op = "putBudget" /\ ret.status = "200")
          => BudgetRouteProfile(ret.userId).salary = getSalary(ret.userId)

----------------------------------------------------------------------------
(* NotificationService.generateAgenticNotification, a call at a time, while *)
(* sockets connect, authenticate and disconnect.  `input` holds the call in *)
(* flight and the await it stands at.                                      *)

MaxAgentic == 2

\* the insight argument: undefined, or an insight with a type and a content
\* (the empty content fails the `required` validation of Nudge.message)
AgenticInsights ==
    {[defined |-> FALSE, insightId |-> "", type |-> "", content |-> ""]}
      \cup [defined : {TRUE}, insightId : {"i1"},
            type : {"burn_risk", "goal", "tip"}, content : {"", "text"}]

\* the optional transactionData argument, as the sequence of its ids
AgenticTransactionData == {<<>>, <<"t1">>}

\* the switch on insight.type
NotificationType(type) ==
    CASE type = "burn_risk" -> "burn_risk_alert"
      [] type = "savings_opportunity" -> "savings_opportunity"
      [] type = "pattern" -> "habit_pattern"
      [] type = "goal" -> "goal_progress"
      [] OTHER -> "suggestion"

NotificationSeverity(type) ==
    CASE type = "burn_risk" -> "high"
      [] type \in {"savings_opportunity", "goal"} -> "low"
      [] OTHER -> "medium"

\* mutant: the Nudge without the link to its insight
NewNudgeNoSource(userId, insight, transactionData) ==
    [userId |-> userId, message |-> insight.content,
     type |-> NotificationType(insight.type),
     severity |-> NotificationSeverity(insight.type),
     isRead |-> FALSE, actionRequired |-> TRUE,
     relatedTransactions |-> transactionData,
     sourceInsightId |-> "", chatbotContext |-> insight.type]

\* new Nudge({...})
NewNudge(userId, insight, transactionData) ==
    [userId |-> userId, message |-> insight.content,
     type |-> NotificationType(insight.type),
     severity |-> NotificationSeverity(insight.type),
     isRead |-> FALSE, actionRequired |-> TRUE,
     relatedTransactions |-> transactionData,
     sourceInsightId |-> insight.insightId, chatbotContext |-> insight.type]

\* the validation of nudge.save(): userId, message, type and severity are
\* required, type and severity are of the enums
NudgeTypes ==
    {"warning", "suggestion", "celebration", "overspending", "budget_alert",
     "savings_goal", "spending_pattern", "bill_reminder", "burn_risk_alert",
     "savings_opportunity", "habit_pattern", "goal_progress"}
nudgeFailsValidation(nudge) ==
    \/ nudge.userId = "" \/ nudge.message = ""
    \/ nudge.type \notin NudgeTypes
    \/ nudge.severity \notin {"low", "medium", "high"}

NoCall == [pc |-> "idle", userId |-> "", insight |-> <<>>, transactionData |-> <<>>,
           calls |-> 0]

AgenticReturn(error, sent, recipients) ==
    /\ ret' = Response("generateAgenticNotification", input.userId,
                       [insight |-> input.insight,
                        transactionData |-> input.transactionData],
                       "returned",
                       [error |-> error, sent |-> sent, recipients |-> recipients])
    /\ input' = [NoCall EXCEPT !.calls = input.calls]

\* the call: no call is in flight
AgenticCall ==
    /\ input.pc = "idle" /\ input.calls < MaxAgentic
    /\ \E u \in Users, insight \in AgenticInsights,
          transactionData \in AgenticTransactionData :
          input' = [pc |-> "findUser", userId |-> u, insight |-> insight,
                    transactionData |-> transactionData, calls |-> input.calls + 1]
    /\ UNCHANGED <<ret, insightVars, budgets, salaries, behaviorVars, socketVars,
                   platformVars>>

\* User.findOne settles: the call returns when it rejects (caught), when
\* there is no user, and when insight.type throws (caught); otherwise it goes
\* on to nudge.save()
AgenticFindUser ==
    /\ input.pc = "findUser"
    /\ \E rejects \in BOOLEAN :
          IF rejects \/ ~input.insight.defined
          THEN AgenticReturn(TRUE, "none", {})
          ELSE IF ~users[input.userId].exists
          THEN AgenticReturn(FALSE, "none", {})
          ELSE input' = [input EXCEPT !.pc = "save"] /\ UNCHANGED ret
    /\ UNCHANGED <<insightVars, budgets, salaries, behaviorVars, socketVars, platformVars>>

\* nudge.save() settles: a rejection (validation or the database) is caught
AgenticSave ==
    /\ input.pc = "save"
    /\ LET nudge == NewNudge(input.userId, input.insight, input.transactionData)
       IN  \E rejects \in BOOLEAN :
              IF rejects \/ nudgeFailsValidation(nudge)
              THEN AgenticReturn(TRUE, "none", {}) /\ UNCHANGED nudges
              ELSE /\ nudges' = Append(nudges, nudge)
                   /\ input' = [input EXCEPT !.pc = "send"]
                   /\ UNCHANGED ret
    /\ UNCHANGED <<insightVars, budgets, salaries, behaviorVars, socketVars, llm, db,
                   users, transactions, outbox>>

\* this.sendNotification(userId, {...}) and the return
AgenticSend ==
    /\ input.pc = "send"
    /\ LET u == input.userId
           recipients == Recipients(u, io, userSockets, socketState)
       IN  /\ AgenticReturn(FALSE, SendStatus(u, io, userSockets), recipients)
           /\ outbox' =
                [next |-> outbox.next + 1,
                 queued |-> IF SendStatus(u, io, userSockets) = "not connected"
                            THEN [outbox.queued EXCEPT ![u] = @ \cup {outbox.next}]
                            ELSE outbox.queued,
                 emitted |-> IF recipients # {}
                             THEN [outbox.emitted EXCEPT ![u] = @ \cup {outbox.next}]
                             ELSE outbox.emitted]
    /\ UNCHANGED <<insightVars, budgets, salaries, behaviorVars, socketVars, llm, db,
                   collectionVars>>

AgenticInit ==
    /\ InsightInit /\ DataInit /\ BehaviorInit /\ SocketInit /\ LlmInit /\ DbInit
    /\ OutboxInit /\ nudges = <<>>
    /\ transactions = <<>>
    /\ input = NoCall
    /\ ret = InitRet
    /\ users = [u \in Users |->
                  IF u = GenUser
                  THEN [exists |-> TRUE, spendingPersonality |-> "Medium Spender",
                        salary |-> NoSalary]
                  ELSE NoUser]

AgenticNext ==
    \/ AgenticCall \/ AgenticFindUser \/ AgenticSave \/ AgenticSend
    \/ NotifyInitialize \/ NotifyConnect \/ NotifyAuthenticate \/ NotifyDisconnect

SpecAgentic == AgenticInit /\ [][AgenticNext]_vars

\* the stored nudges of a user for an insight that are unread and require an
\* action
NudgesFor(userId, insightId) ==
    {i \in 1..Len(nudges) :
        /\ nudges[i].userId = userId /\ nudges[i].sourceInsightId = insightId
        /\ ~nudges[i].isRead /\ nudges[i].actionRequired}
AgenticReturned == ret.op = "generateAgenticNotification"

\* C23: sendNotification is called for an insight only when the unread,
\* action-required Nudge with that sourceInsightId is stored; a call for an
\* existing user whose save succeeds stores the Nudge whether or not the user
\* is connected; a call that finds no user or fails sends and stores nothing;
\* and every call returns to its caller.
C23_PersistBeforeEmit ==
    /\ [][outbox' # outbox =>
            /\ input.pc = "send"
            /\ NudgesFor(input.userId, input.insight.insightId) # {}
            /\ UNCHANGED nudges]_vars
    /\ [](AgenticReturned /\ ret.value.sent # "none" =>
            NudgesFor(ret.userId, ret.arg.insight.insightId) # {})
    /\ [][AgenticReturned' /\ ret' # ret /\ (ret'.value.error \/ ~users[ret'.userId].exists) =>
            /\ UNCHANGED <<nudges, outbox>>
            /\ input.pc \in {"findUser", "save"}]_vars
    /\ [](AgenticReturned => ret.status = "returned")

\* a call for a user who is not connected has returned with its Nudge stored
C23_Witness ==
    /\ AgenticReturned /\ ret.value.sent = "not connected"
    /\ io /\ nudges # <<>> /\ outbox.queued[ret.userId] # {}

----------------------------------------------------------------------------
(* The life of an insight: generated, answered through the response route, *)
(* deactivated through the delete route, read with                         *)
(* getActiveInsightsForUser, by its owner and by another user.             *)

MaxLifeBatches == 2
MaxLifeResponses == 1
MaxLifeInactive == 2

\* req.body.response
LifeResponses == {"acted_on", "ignored"}

LifeGenerate ==
    /\ clock <= MaxLifeBatches
    /\ \E u \in Users :
          generateInsightsForUser(u, <<>>, StoreProfile(u), 3, TRUE)
    /\ UNCHANGED <<budgets, salaries, behaviorVars, input, socketVars, platformVars>>

\* PUT /:userId/insights/:insightId/response, with the id of a stored
\* insight or an id no insight has
LifeRespond ==
    /\ responseCount["u1"].total + responseCount["u2"].total < MaxLifeResponses
    /\ \E u \in Users, id \in 1..nextId, response \in LifeResponses :
          PutInsightResponse(u, id, response)
    /\ UNCHANGED <<nextId, clock, budgets, salaries, input, socketVars, platformVars>>

\* DELETE /:userId/insights/:insightId
LifeDeactivate ==
    /\ InactiveCount < MaxLifeInactive
    /\ \E u \in Users, id \in 1..nextId : deactivateInsight(id, u)
    /\ UNCHANGED <<budgets, salaries, behaviorVars, input, socketVars, platformVars>>

LifeGetActive ==
    /\ \E u \in Users, limit \in {3}, tiesReversed \in BOOLEAN :
          ret' = [op |-> "getActive", userId |-> u, arg |-> limit, status |-> "ok",
                  value |-> getActiveInsightsForUser(u, limit, tiesReversed)]
    /\ UNCHANGED <<insightVars, budgets, salaries, behaviorVars, input, socketVars,
                   platformVars>>

LifeNext == LifeGenerate \/ LifeRespond \/ LifeDeactivate \/ LifeGetActive

SpecLife == Init /\ [][LifeNext]_vars

\* the stored insights with an id
WithId(insightId) == {i \in 1..Len(aiInsights) : aiInsights[i].insightId = insightId}
InactiveIds == {aiInsights[i].insightId : i \in {j \in 1..Len(aiInsights) : ~aiInsights[j].isActive}}

\* C24: a successful deactivateInsight leaves the insight inactive; an
\* inactive insight stays stored and inactive in every step (generation,
\* response, deactivation); and no result of getActiveInsightsForUser
\* contains an inactive insight.
C24_DeactivationIsFinal ==
    /\ [][(ret'.op = "deactivate" /\ ret'.status = "ok") =>
            \A i \in WithId(ret'.arg) :
                aiInsights[i].userId = ret'.userId => ~aiInsights'[i].isActive]_vars
    /\ [][\A i \in 1..Len(aiInsights) :
            ~aiInsights[i].isActive =>
                /\ i <= Len(aiInsights')
                /\ aiInsights'[i].insightId = aiInsights[i].insightId
                /\ ~aiInsights'[i].isActive]_vars
    /\ [](ret.op = "getActive" =>
            \A k \in 1..Len(ret.value) : ret.value[k].insightId \notin InactiveIds)

\* an insight of the user has been deactivated, answered afterwards, and the
\* user's active insights are read
C24_Witness ==
    /\ ret.op = "getActive" /\ ret.value # <<>>
    /\ \E i \in 1..Len(aiInsights) :
          /\ aiInsights[i].userId = ret.userId
          /\ ~aiInsights[i].isActive
          /\ aiInsights[i].userResponse = "acted_on"
    /\ clock > 2

\* C25: updateInsightResponse and deactivateInsight called with a userId that
\* is not the insight's answer 404, change no stored insight and record no
\* behaviour response.
C25_OwnerScoped ==
    [][(/\ ret'.op \in {"respond", "deactivate"}
        /\ WithId(ret'.arg) # {}
        /\ \A i \in WithId(ret'.arg) : aiInsights[i].userId # ret'.userId)
          => /\ ret'.status = "404"
             /\ UNCHANGED <<aiInsights, userProfiles, responseCount>>]_vars

\* a response and a deactivation by a user who does not own the insight have
\* been answered 404 while the insight is still active and unanswered
C25_Witness ==
    /\ ret.op \in {"respond", "deactivate"} /\ ret.status = "404"
    /\ \E i \in WithId(ret.arg) :
          /\ aiInsights[i].userId # ret.userId
          /\ aiInsights[i].isActive
    /\ \E u \in Users : responseCount[u].total > 0

----------------------------------------------------------------------------
(* AdvancedAnalyticsService.calculateFinancialHealthScore.  The scores are *)
(* kept in thousandths until Math.round.                                   *)

MaxHealthTx == 3

HealthPool ==
    [amount : {333, 30000, 60000}, category : {"Groceries", "Shopping"},
     date : {Now - 5, Now - DaysInMonth - 10}]

HealthDoc(userId, i, row) ==
    [id |-> i, userId |-> userId, amount |-> row.amount, category |-> row.category,
     merchant |-> "Mart", date |-> row.date, paymentMode |-> "UPI",
     isSimulated |-> FALSE]

\* Math.round(a / b) for b > 0: the nearest integer, halves towards +Infinity
MathRound(a, b) == (2 * a + b) \div (2 * b)

\* Transaction.find({ userId, date: { $gte: startDate, $lte: endDate } })
LastMonthTransactions(userId) ==
    SelectSeq(transactions,
              LAMBDA tx : /\ tx.userId = userId
                          /\ tx.date >= Now - DaysInMonth /\ tx.date <= Now)

UnableToCalculate ==
    [overall |-> 50, spending |-> 50, savings |-> 50, budgeting |-> 50,
     recommendations |-> <<"Unable to calculate score at this time">>]

calculateFinancialHealthScore(userId, queryFails) ==
    IF ~users[userId].exists \/ queryFails THEN UnableToCalculate
    ELSE
    LET txs == LastMonthTransactions(userId)
        totalSpent == SumSeq(Amounts(txs))
        \* Math.max(0, 100 - (totalSpent / 50000) * 100), in thousandths
        spendingScore == Max(0, 100000 - 2 * totalSpent)
        estimatedIncome == 100000
        \* Math.min(100, (actualSavings / savingsTarget) * 100), in thousandths
        actualSavings == estimatedIncome - totalSpent
        savingsScore == Min(100000, 5 * actualSavings)
        categoryCount == Cardinality({txs[i].category : i \in 1..Len(txs)})
        budgetingScore == 1000 * Min(100, categoryCount * 10)
    IN  [overall |-> MathRound(spendingScore + savingsScore + budgetingScore, 3000),
         spending |-> MathRound(spendingScore, 1000),
         savings |-> MathRound(savingsScore, 1000),
         budgeting |-> MathRound(budgetingScore, 1000),
         recommendations |->
            (IF spendingScore < 50000 THEN <<"Consider reducing overall spending">> ELSE <<>>)
            \o (IF savingsScore < 50000 THEN <<"Focus on increasing savings">> ELSE <<>>)
            \o (IF budgetingScore < 50000 THEN <<"Create a detailed budget plan">> ELSE <<>>)]

HealthInit ==
    /\ InsightInit /\ DataInit /\ BehaviorInit /\ SocketInit /\ LlmInit /\ DbInit
    /\ OutboxInit /\ nudges = <<>>
    /\ input = NoInput
    /\ ret = InitRet
    /\ \E rows \in UNION {[1..n -> HealthPool] : n \in 0..MaxHealthTx} :
          transactions = [i \in 1..Len(rows) |-> HealthDoc(GenUser, i, rows[i])]
    /\ \E exists \in BOOLEAN :
          users = [u \in Users |->
                     IF u = GenUser /\ exists
                     THEN [exists |-> TRUE, spendingPersonality |-> "Medium Spender",
                           salary |-> NoSalary]
                     ELSE NoUser]

HealthScore ==
    /\ ret.op = "init"
    /\ \E queryFails \in BOOLEAN :
          ret' = Response("calculateFinancialHealthScore", GenUser, queryFails, "ok",
                          calculateFinancialHealthScore(GenUser, queryFails))
    /\ UNCHANGED <<insightVars, budgets, salaries, behaviorVars, input, socketVars,
                   platformVars>>

HealthNext == HealthScore

SpecHealth == HealthInit /\ [][HealthNext]_vars

\* C26 as claimed: the four scores are integers in 0..100, overall is the
\* rounded mean of the three component scores, for every set of transactions
\* of the last month, totals above 100000 included; without the user or with
\* a failing query all four are 50, with the one 'Unable to calculate'
\* recommendation.
C26_AsClaimed ==
    ret.op = "calculateFinancialHealthScore" =>
        LET score == ret.value
        IN  IF ~users[ret.userId].exists \/ ret.arg
            THEN score = UnableToCalculate
            ELSE /\ \A f \in {"overall", "spending", "savings", "budgeting"} :
                       score[f] \in 0..100
                 /\ score.overall
                       = MathRound(score.spending + score.savings + score.budgeting, 3)
====
